---- MODULE Spec2Model ----
(***************************************************************************)
(* The core-file target backend of gdb (gdb/corelow.c): the session        *)
(* manager (core_open, core_xclose, core_detach), the format registry      *)
(* (deprecated_add_core_fns, gdb_check_format, sniff_core_bfd), the thread  *)
(* list built from `.reg/<lwp>' sections (add_to_thread_list) and the       *)
(* partial-transfer router (core_xfer_partial, add_to_spuid_list).          *)
(*                                                                         *)
(* Every operation of the backend is one action.  An operation is modelled *)
(* by an operator that takes the debugger state as a record and returns    *)
(* the state it leaves, so that the calls an operation makes (an open that *)
(* closes the previous session, a failed open that runs its cleanups) are  *)
(* part of the same step.                                                  *)
(***************************************************************************)
EXTENDS Integers, Sequences, FiniteSets, TLC

(***************************************************************************)
(* Bounds of the model.                                                    *)
(***************************************************************************)
\* Handlers that startup code registers at most.
MaxHandlers == 2
\* Instances of core_target_ops_with_data that can be allocated at once.
MaxCops == 2
\* Largest offset and largest length of a transfer request.
MaxOffset == 5
MaxLen == 8

(***************************************************************************)
(* Program constants.                                                      *)
(***************************************************************************)
\* #define CORELOW_PID 1
CORELOW_PID == 1
\* A null pointer: no bfd, no handler, no architecture, no section table.
NULL == 0

null_ptid == <<0, 0, 0>>
ptid_build(pid, lwp, tid) == <<pid, lwp, tid>>
pid_to_ptid(pid) == <<pid, 0, 0>>
ptid_get_pid(ptid) == ptid[1]
ptid_get_lwp(ptid) == ptid[2]

(***************************************************************************)
(* Section names are strings of characters; the code inspects them with    *)
(* startswith, atoi, strcmp and sscanf, which are modelled on the          *)
(* characters.                                                             *)
(***************************************************************************)
S_reg == <<".", "r", "e", "g">>
S_reg_slash == <<".", "r", "e", "g", "/">>
S_reg2 == <<".", "r", "e", "g", "2">>
S_auxv == <<".", "a", "u", "x", "v">>
S_wcookie == <<".", "w", "c", "o", "o", "k", "i", "e">>
S_SPU_slash == <<"S", "P", "U", "/">>
S_slash_regs == <<"/", "r", "e", "g", "s">>
S_slash_mem == <<"/", "m", "e", "m">>
S_siginfo == <<".", "n", "o", "t", "e", ".", "l", "i", "n", "u", "x", "c", "o", "r",
               "e", ".", "s", "i", "g", "i", "n", "f", "o">>
S_load == <<"l", "o", "a", "d">>

Digits == <<"0", "1", "2", "3", "4", "5", "6", "7", "8", "9">>
IsDigit(ch) == \E i \in 1..10 : Digits[i] = ch
DigitVal(ch) == (CHOOSE i \in 1..10 : Digits[i] = ch) - 1
IsSpace(ch) == ch \in {" ", "\t", "\n"}

startswith(str, pfx) ==
  /\ Len(str) >= Len(pfx)
  /\ SubSeq(str, 1, Len(pfx)) = pfx

Drop(str, n) == SubSeq(str, n + 1, Len(str))

\* The value of the longest prefix of decimal digits of str, continuing acc.
RECURSIVE DigitRun(_, _)
DigitRun(str, acc) ==
  IF str = <<>> \/ ~IsDigit(Head(str))
  THEN acc
  ELSE DigitRun(Tail(str), acc * 10 + DigitVal(Head(str)))

\* How many leading characters of str are decimal digits.
RECURSIVE DigitCount(_)
DigitCount(str) ==
  IF str = <<>> \/ ~IsDigit(Head(str)) THEN 0 ELSE 1 + DigitCount(Tail(str))

RECURSIVE SkipSpace(_)
SkipSpace(str) ==
  IF str # <<>> /\ IsSpace(Head(str)) THEN SkipSpace(Tail(str)) ELSE str

\* The decimal digits of a natural number: what "%ld" prints for it.
RECURSIVE NatString(_)
NatString(n) ==
  IF n < 10 THEN << Digits[n + 1] >>
  ELSE NatString(n \div 10) \o << Digits[(n % 10) + 1] >>

\* xstrprintf ("%s/%ld", name, lwp)
name_slash_lwp(name, lwp) ==
  name \o <<"/">> \o (IF lwp < 0 THEN <<"-">> \o NatString(0 - lwp) ELSE NatString(lwp))

\* atoi (3): leading white space, an optional sign, then the digits up to
\* the first character that is not one; 0 when there is no digit.
atoi(str) ==
  LET t == SkipSpace(str)
  IN  IF t # <<>> /\ Head(t) = "-" THEN 0 - DigitRun(Tail(t), 0)
      ELSE IF t # <<>> /\ Head(t) = "+" THEN DigitRun(Tail(t), 0)
      ELSE DigitRun(t, 0)

(***************************************************************************)
(* The containers (core files as the BFD library presents them) that the   *)
(* model opens.  is_core: bfd_check_format (abfd, bfd_core).  format: what  *)
(* a handler's check_format predicate looks at.  flavour: bfd_get_flavour.  *)
(* arch: gdbarch_from_bfd (an index of Gdbarch, or NULL).  pid, siggy:      *)
(* bfd_core_file_pid, bfd_core_file_failing_signal.  big_endian:            *)
(* bfd_big_endian.  sections: in the order bfd_map_over_sections visits     *)
(* them.                                                                   *)
(***************************************************************************)
Sect(name, filepos, size) ==
  [name |-> name, filepos |-> filepos, size |-> size, alloc |-> FALSE, vma |-> 0]
\* A section of the memory image (SEC_ALLOC), at the address vma.
Load(name, filepos, size, vma) ==
  [name |-> name, filepos |-> filepos, size |-> size, alloc |-> TRUE, vma |-> vma]

\* What an architecture's iterator (gdbarch_iterate_over_regset_sections)
\* reports to its callback for a section: sect_name, size, regset (an index
\* of Regsets, or NULL) and human_name (NULL: none).
Reported(sect_name, size, regset) ==
  [sect_name |-> sect_name, size |-> size, regset |-> regset, human_name |-> NULL]

Gdbarch ==
  <<  \* 1: an architecture with a register-section iterator
      [iterate_over_regset_sections_p |-> TRUE,  gdb_signal_from_target_p |-> TRUE,
       core_xfer_shared_libraries_p |-> TRUE, core_xfer_shared_libraries_aix_p |-> FALSE,
       regset_sections |-> << Reported(S_reg, 4, 1), Reported(S_reg2, 4, 2) >>],
      \* 2: an architecture without one
      [iterate_over_regset_sections_p |-> FALSE, gdb_signal_from_target_p |-> FALSE,
       core_xfer_shared_libraries_p |-> FALSE, core_xfer_shared_libraries_aix_p |-> FALSE,
       regset_sections |-> << >>],
      \* 3: an architecture without one, with the AIX shared-library extractor
      [iterate_over_regset_sections_p |-> FALSE, gdb_signal_from_target_p |-> FALSE,
       core_xfer_shared_libraries_p |-> FALSE, core_xfer_shared_libraries_aix_p |-> TRUE,
       regset_sections |-> << >>],
      \* 4: an architecture whose iterator reports `.reg' without a register set
      [iterate_over_regset_sections_p |-> TRUE, gdb_signal_from_target_p |-> FALSE,
       core_xfer_shared_libraries_p |-> FALSE, core_xfer_shared_libraries_aix_p |-> FALSE,
       regset_sections |-> << Reported(S_reg2, 4, 2), Reported(S_reg, 4, NULL) >>] >>

\* gdb_signal_from_host: the number gdb gives a signal of the host (a
\* GNU/Linux host: SIGABRT, SIGBUS, SIGUSR1, SIGSEGV), else
\* GDB_SIGNAL_UNKNOWN.
GDB_SIGNAL_UNKNOWN == 143
gdb_signal_from_host(hostsig) ==
  CASE hostsig = 6 -> 6
    [] hostsig = 7 -> 10
    [] hostsig = 10 -> 30
    [] hostsig = 11 -> 11
    [] OTHER -> GDB_SIGNAL_UNKNOWN

\* gdbarch_gdb_signal_from_target of an architecture that has it: the
\* signal numbers of GNU/Linux.
gdbarch_gdb_signal_from_target(gdbarch, signo) == gdb_signal_from_host(signo)

Containers ==
  << \* 1: single-threaded native core: a pid, `.reg', no `.reg/<lwp>'
     [is_core |-> TRUE, format |-> "elf", flavour |-> "elf", arch |-> 1,
      pid |-> 4321, siggy |-> 11, big_endian |-> FALSE,
      sections |-> << Sect(S_reg, 100, 4), Sect(S_auxv, 300, 3),
                      Sect(S_siginfo, 350, 4),
                      Load(S_load, 1000, 3, 2) >>],
     \* 2: pid-less core, `.reg' aliasing `.reg/18'; SPU contexts 3 and 7
     [is_core |-> TRUE, format |-> "elf", flavour |-> "elf", arch |-> 2,
      pid |-> 0, siggy |-> 0, big_endian |-> FALSE,
      sections |-> << Sect(S_reg_slash \o <<"1", "7">>, 100, 4),
                      Sect(S_reg_slash \o <<"1", "8">>, 200, 4),
                      Sect(S_reg, 200, 4),
                      Sect(name_slash_lwp(S_reg2, 18), 250, 4),
                      Sect(S_wcookie, 400, 2),
                      Sect(name_slash_lwp(S_siginfo, 18), 450, 4),
                      Sect(S_SPU_slash \o <<"3">> \o S_slash_regs, 500, 4),
                      Sect(S_SPU_slash \o <<"7">> \o S_slash_regs, 600, 4),
                      Sect(S_SPU_slash \o <<"3">> \o S_slash_mem, 700, 2) >>],
     \* 3: pid-less core without `.reg/<lwp>'
     [is_core |-> TRUE, format |-> "elf", flavour |-> "elf", arch |-> 1,
      pid |-> 0, siggy |-> 7, big_endian |-> FALSE,
      sections |-> << Sect(S_reg, 100, 4), Sect(S_auxv, 300, 0),
                      Sect(S_reg2, 150, 2) >>],
     \* 4: threads, but `.reg' matches none of them; SPU contexts
     [is_core |-> TRUE, format |-> "elf", flavour |-> "elf", arch |-> NULL,
      pid |-> 77, siggy |-> 10, big_endian |-> TRUE,
      sections |-> << Sect(S_reg_slash \o <<"2", "5">>, 100, 4),
                      Sect(S_SPU_slash \o <<"7">> \o S_slash_regs, 500, 4),
                      Sect(S_reg, 900, 4),
                      Sect(S_reg_slash \o <<"9">>, 200, 4),
                      Sect(S_SPU_slash \o <<"3">> \o S_slash_regs, 600, 4),
                      Sect(S_SPU_slash \o <<"3">> \o S_slash_mem, 700, 2) >>],
     \* 5: a `.reg/' section whose tail is not a number
     [is_core |-> TRUE, format |-> "elf", flavour |-> "elf", arch |-> 1,
      pid |-> 77, siggy |-> 11, big_endian |-> FALSE,
      sections |-> << Sect(S_reg_slash \o <<"1", "7">>, 100, 4),
                      Sect(S_reg_slash \o <<"a", "b">>, 200, 4),
                      Sect(S_reg, 100, 4),
                      Sect(name_slash_lwp(S_reg2, 17), 150, 2) >>],
     \* 6: a file BFD rejects, in a format the "raw" handler recognises
     [is_core |-> FALSE, format |-> "raw", flavour |-> "raw", arch |-> 3,
      pid |-> 0, siggy |-> 0, big_endian |-> FALSE,
      sections |-> << Sect(S_reg, 100, 4) >>],
     \* 7: a file BFD rejects and no handler knows
     [is_core |-> FALSE, format |-> "text", flavour |-> "unknown", arch |-> NULL,
      pid |-> 0, siggy |-> 0, big_endian |-> FALSE,
      sections |-> << >>],
     \* 8: a core of the architecture whose iterator reports no register set
     [is_core |-> TRUE, format |-> "elf", flavour |-> "elf", arch |-> 4,
      pid |-> 55, siggy |-> 0, big_endian |-> FALSE,
      sections |-> << Sect(S_reg, 100, 4), Sect(S_reg2, 150, 4) >>] >>

ContainerIds == 1..Len(Containers)

Min(S) == CHOOSE x \in S : \A y \in S : x <= y

bfd_core_file_pid(abfd) == Containers[abfd].pid
bfd_core_file_failing_signal(abfd) == Containers[abfd].siggy
gdbarch_from_bfd(abfd) == Containers[abfd].arch
bfd_big_endian(abfd) == Containers[abfd].big_endian
\* The sections of an open bfd; there is none to visit without a bfd.
bfd_sections(abfd) == IF abfd = NULL THEN << >> ELSE Containers[abfd].sections

\* bfd_get_section_by_name: the first section of that name, or NULL (0).
bfd_get_section_by_name(abfd, name) ==
  LET first(hits) == IF hits = {} THEN NULL ELSE Min(hits)
      named(secs) == first({i \in 1..Len(secs) : secs[i].name = name})
  IN  named(bfd_sections(abfd))

\* bfd_get_section_contents (abfd, section, location, offset, count): it
\* fails when the bytes cannot be read or do not lie within the section.
bfd_get_section_contents(section, offset, count, read_ok) ==
  read_ok /\ offset + count <= section.size

\* The byte the container holds at index at (from 0) of a section, and what
\* a bfd_get_section_contents that succeeds stores at location: the count
\* bytes of the section from offset on.
section_byte(section, at) == (section.filepos + 3 * at) % 251
section_contents(section, offset, count) ==
  [i \in 1..count |-> section_byte(section, offset + i - 1)]

(***************************************************************************)
(* The core handlers (struct core_fns) that startup code may register.     *)
(* core_flavour is what default_core_sniffer compares; check_format is the *)
(* set of formats the handler's check_format predicate accepts             *)
(* (default_check_format accepts none).                                    *)
(***************************************************************************)
Handlers ==
  << [core_flavour |-> "elf", check_format |-> {},      core_read_registers |-> TRUE],
     [core_flavour |-> "raw", check_format |-> {"raw"}, core_read_registers |-> TRUE],
     [core_flavour |-> "elf", check_format |-> {},      core_read_registers |-> FALSE] >>

HandlerIds == 1..Len(Handlers)

(***************************************************************************)
(* The register cache holds, per register, REG_UNKNOWN, REG_VALID or        *)
(* REG_UNAVAILABLE; the model follows the general-purpose registers and    *)
(* the floating-point registers as two groups.                             *)
(***************************************************************************)
RegisterGroups == {"gp", "fp"}
\* A flushed register cache (registers_changed).
NoRegisters == [g \in RegisterGroups |-> "REG_UNKNOWN"]

\* The register sets (struct regset) of the architectures: the registers
\* supply_regset supplies, and REGSET_VARIABLE_SIZE of flags.
Regsets ==
  << [supplies |-> "gp", variable_size |-> FALSE],
     [supplies |-> "fp", variable_size |-> FALSE] >>

VARIABLES
  core_file_fns,   \* the registered handlers, newest first
  core_bfd,        \* the container of the session, or NULL
  bfd_refs,        \* per container, the references this backend holds on it
  target_stack,    \* the core_target_ops_with_data instances on the target stack
  cops_heap,       \* the allocated core_target_ops_with_data, by address
  sectabs,         \* section tables allocated and not yet freed
  inferior,        \* current_inferior (): pid (0: none) and fake_pid_p
  thread_list,     \* the thread registry, in creation order
  inferior_ptid,   \* the current thread
  exitsignal,      \* the $_exitsignal convenience variable (0: void)
  regcache,        \* the register cache of the current thread, per register group
  warnings,        \* the warnings the last operation printed, in order
  last,            \* the last operation: what it was, its argument, its outcome
  log,             \* the calls the last operation made, in order
  cycle,           \* the open / close / open round trip under observation
  xfer             \* the result of the last core_xfer_partial

vars == << core_file_fns, core_bfd, bfd_refs, target_stack, cops_heap, sectabs,
           inferior, thread_list, inferior_ptid, exitsignal, regcache, warnings,
           last, log, cycle, xfer >>

(***************************************************************************)
(* The debugger state as a record, so that an operation can be applied to  *)
(* the state another one left.                                             *)
(***************************************************************************)
St ==
  [ core_file_fns |-> core_file_fns, core_bfd |-> core_bfd, bfd_refs |-> bfd_refs,
    target_stack |-> target_stack, cops_heap |-> cops_heap, sectabs |-> sectabs,
    inferior |-> inferior, thread_list |-> thread_list,
    inferior_ptid |-> inferior_ptid, exitsignal |-> exitsignal,
    regcache |-> regcache, warnings |-> << >>, log |-> << >> ]

Called(st, what) == [st EXCEPT !.log = Append(@, what)]
RECURSIVE CalledTimes(_, _, _)
CalledTimes(st, what, n) ==
  IF n = 0 THEN st ELSE CalledTimes(Called(st, what), what, n - 1)
\* warning (...)
warning(st, what) == [st EXCEPT !.warnings = Append(@, what)]

CopsIds == 1..MaxCops
\* A core_target_ops_with_data that is not allocated.
FreeCops == [live |-> FALSE, core_vec |-> NULL, core_gdbarch |-> NULL, sections |-> NULL]
\* TARGET_NEW: a zero-initialised instance.
NewCops == [live |-> TRUE, core_vec |-> NULL, core_gdbarch |-> NULL, sections |-> NULL]

(***************************************************************************)
(* The collaborators core_open and core_xclose call into: the BFD          *)
(* reference count, the inferior and thread registries and the target      *)
(* stack.                                                                  *)
(***************************************************************************)
gdb_bfd_ref(st, abfd) == [st EXCEPT !.bfd_refs[abfd] = @ + 1]

gdb_bfd_unref(st, abfd) ==
  IF abfd = NULL THEN st
  ELSE Called([st EXCEPT !.bfd_refs[abfd] = @ - 1], "gdb_bfd_unref")

\* The inferior of that pid, if there is one, loses its threads (and their
\* register caches), its pid and its fake-pid flag.
exit_inferior_silent(st, pid) ==
  IF st.inferior.pid # pid THEN st
  ELSE Called([st EXCEPT
                 !.thread_list = SelectSeq(@, LAMBDA p : ptid_get_pid(p) # pid),
                 !.regcache = NoRegisters,
                 !.inferior = [pid |-> 0, fake_pid_p |-> FALSE]],
              "exit_inferior_silent")

inferior_appeared(st, pid) == [st EXCEPT !.inferior.pid = pid]

init_thread_list(st) == [st EXCEPT !.thread_list = << >>]

\* A thread of that ptid, if there is one, is replaced by the new one.
add_thread(st, ptid) ==
  [st EXCEPT !.thread_list = Append(SelectSeq(@, LAMBDA p : p # ptid), ptid)]

\* The thread created first, or null_ptid for no thread.
first_thread_of_process(st) ==
  IF st.thread_list = << >> THEN null_ptid ELSE Head(st.thread_list)

(***************************************************************************)
(* core_xclose: discard all vestiges of the core file of the session.      *)
(***************************************************************************)
\* core_xclose that forgets gdb_bfd_unref (core_bfd).
core_xclose_bfd_keeps_ref(st) ==
  IF st.core_bfd # NULL
  THEN LET pid == ptid_get_pid(st.inferior_ptid)
           a == Called([st EXCEPT !.inferior_ptid = null_ptid], "clear_inferior_ptid")
           b == IF pid # 0 THEN exit_inferior_silent(a, pid) ELSE a
           c == Called(b, "clear_solib")
       IN  [c EXCEPT !.core_bfd = NULL]
  ELSE st

\* core_xclose that reads the pid after it cleared inferior_ptid.
core_xclose_bfd_pid_after_clear(st) ==
  IF st.core_bfd # NULL
  THEN LET a == Called([st EXCEPT !.inferior_ptid = null_ptid], "clear_inferior_ptid")
           pid == ptid_get_pid(a.inferior_ptid)
           b == IF pid # 0 THEN exit_inferior_silent(a, pid) ELSE a
           c == Called(b, "clear_solib")
           d == gdb_bfd_unref(c, c.core_bfd)
       IN  [d EXCEPT !.core_bfd = NULL]
  ELSE st

\* core_xclose that clears the shared-object state after it dropped the
\* container.
core_xclose_bfd_solib_after_unref(st) ==
  IF st.core_bfd # NULL
  THEN LET pid == ptid_get_pid(st.inferior_ptid)
           a == Called([st EXCEPT !.inferior_ptid = null_ptid], "clear_inferior_ptid")
           b == IF pid # 0 THEN exit_inferior_silent(a, pid) ELSE a
           c == gdb_bfd_unref(b, b.core_bfd)
           d == Called(c, "clear_solib")
       IN  [d EXCEPT !.core_bfd = NULL]
  ELSE st

core_xclose_bfd(st) ==
  IF st.core_bfd # NULL
  THEN LET pid == ptid_get_pid(st.inferior_ptid)
           a == Called([st EXCEPT !.inferior_ptid = null_ptid], "clear_inferior_ptid")
           b == IF pid # 0 THEN exit_inferior_silent(a, pid) ELSE a
           c == Called(b, "clear_solib")
           d == gdb_bfd_unref(c, c.core_bfd)
       IN  [d EXCEPT !.core_bfd = NULL]
  ELSE st

\* core_xclose that forgets xfree (cops->core_data.sections).
core_xclose_leaks_sections(st, self) ==
  LET a == core_xclose_bfd(Called(st, "core_xclose"))
  IN  Called([a EXCEPT !.cops_heap[self] = FreeCops], "xfree_cops")

core_xclose(st, self) ==
  LET a == core_xclose_bfd(Called(st, "core_xclose"))
      \* xfree (cops->core_data.sections)
      b == IF a.cops_heap[self].sections # NULL
           THEN Called([a EXCEPT !.sectabs = @ - 1], "xfree_sections")
           ELSE a
      \* xfree (cops)
  IN  Called([b EXCEPT !.cops_heap[self] = FreeCops], "xfree_cops")

\* A cleanup that was never registered.
core_close_cleanup_noop(st, arg) == st

core_close_cleanup(st, arg) == core_xclose(st, arg)

(***************************************************************************)
(* The target stack: unpush_target closes the target it removes, and       *)
(* push_target first removes a target already at the same stratum.         *)
(***************************************************************************)
unpush_instance(st, t) ==
  IF t \in st.target_stack
  THEN core_xclose(Called([st EXCEPT !.target_stack = @ \ {t}], "unpush_target"), t)
  ELSE st

\* unpush_target (&core_ops): every instance whose identity is core_ops.
RECURSIVE unpush_target(_)
unpush_target(st) ==
  IF st.target_stack = {} THEN st
  ELSE unpush_target(unpush_instance(st, Min(st.target_stack)))

push_target(st, t) ==
  LET a == unpush_target(st)
  IN  Called([a EXCEPT !.target_stack = @ \cup {t}], "push_target")

\* get_core_target_ops: the instance at the process stratum, or NULL.
get_core_target_ops(st) ==
  IF st.target_stack = {} THEN NULL ELSE Min(st.target_stack)

(***************************************************************************)
(* The format registry.                                                    *)
(***************************************************************************)
\* deprecated_add_core_fns: cf->next = core_file_fns; core_file_fns = cf.
deprecated_add_core_fns(fns, cf) == << cf >> \o fns

default_core_sniffer(our_fns, abfd) ==
  Containers[abfd].flavour = Handlers[our_fns].core_flavour

\* gdb_check_format that stops at the first handler of the list.
gdb_check_format_first_only(fns, abfd) ==
  /\ fns # << >>
  /\ Containers[abfd].format \in Handlers[fns[1]].check_format

\* gdb_check_format: some handler's check_format accepts.
gdb_check_format(fns, abfd) ==
  \E i \in 1..Len(fns) : Containers[abfd].format \in Handlers[fns[i]].check_format

bfd_check_format(abfd) == Containers[abfd].is_core

\* sniff_core_bfd that keeps the first match instead of the last.
sniff_core_bfd_first_wins(fns, abfd, core_gdbarch) ==
  IF core_gdbarch # NULL /\ Gdbarch[core_gdbarch].iterate_over_regset_sections_p
  THEN [err |-> FALSE, yummy |-> NULL, matches |-> 0, warned |-> FALSE,
        sniffers |-> 0]
  ELSE LET sniffed(hit, matches) ==
             [err |-> (matches = 0),
              yummy |-> IF matches = 0 THEN NULL ELSE hit[1],
              matches |-> matches,
              warned |-> (matches > 1),
              sniffers |-> Len(fns)]
           of(hit) == sniffed(hit, Len(hit))
       IN  of(SelectSeq(fns, LAMBDA cf : default_core_sniffer(cf, abfd)))

\* sniff_core_bfd: [err, yummy, matches, warned, sniffers].  The handlers
\* are visited in list order and yummy is overwritten by every match;
\* sniffers is the number of calls of a handler's core_sniffer.
sniff_core_bfd(fns, abfd, core_gdbarch) ==
  IF core_gdbarch # NULL /\ Gdbarch[core_gdbarch].iterate_over_regset_sections_p
  THEN [err |-> FALSE, yummy |-> NULL, matches |-> 0, warned |-> FALSE,
        sniffers |-> 0]
  ELSE LET sniffed(hit, matches) ==
             [err |-> (matches = 0),
              yummy |-> IF matches = 0 THEN NULL ELSE hit[matches],
              matches |-> matches,
              warned |-> (matches > 1),
              sniffers |-> Len(fns)]
           of(hit) == sniffed(hit, Len(hit))
       IN  of(SelectSeq(fns, LAMBDA cf : default_core_sniffer(cf, abfd)))

(***************************************************************************)
(* add_to_thread_list: the callback of bfd_map_over_sections that turns    *)
(* the sections whose names start with `.reg/' into threads.  asect is a   *)
(* section of core_bfd, reg_sect the index of the section named `.reg' or  *)
(* NULL.                                                                   *)
(***************************************************************************)
\* add_to_thread_list that never makes a thread current.
add_to_thread_list_no_current(st, asect, reg_sect) ==
  IF ~startswith(asect.name, S_reg_slash) THEN st
  ELSE
    LET core_tid == atoi(Drop(asect.name, 5))
        add(pid, fake_pid_p) ==
          LET a == IF st.inferior.pid = 0
                   THEN [inferior_appeared(st, pid)
                           EXCEPT !.inferior.fake_pid_p = fake_pid_p]
                   ELSE st
          IN  add_thread(a, ptid_build(pid, core_tid, 0))
        of(bfd_pid) == IF bfd_pid = 0 THEN add(CORELOW_PID, TRUE)
                       ELSE add(bfd_pid, FALSE)
    IN  of(bfd_core_file_pid(st.core_bfd))

add_to_thread_list(st, asect, reg_sect) ==
  IF ~startswith(asect.name, S_reg_slash) THEN st
  ELSE
    LET core_tid == atoi(Drop(asect.name, 5))
        lwpid == core_tid
        \* the thread ptid joins the list and is current if its section is
        \* at the file offset of `.reg'
        listed(a, ptid) ==
          [add_thread(a, ptid) EXCEPT !.inferior_ptid =
             IF reg_sect # NULL
                /\ asect.filepos = bfd_sections(st.core_bfd)[reg_sect].filepos
             THEN ptid ELSE @]
        \* pid is the process of the thread; fake_pid_p tells a made-up one
        add(pid, fake_pid_p) ==
          listed(IF st.inferior.pid = 0
                 THEN [inferior_appeared(st, pid)
                         EXCEPT !.inferior.fake_pid_p = fake_pid_p]
                 ELSE st,
                 ptid_build(pid, lwpid, 0))
        of(bfd_pid) == IF bfd_pid = 0 THEN add(CORELOW_PID, TRUE)
                       ELSE add(bfd_pid, FALSE)
    IN  of(bfd_core_file_pid(st.core_bfd))

\* bfd_map_over_sections (core_bfd, add_to_thread_list, reg_sect), from
\* section i on.
RECURSIVE map_add_to_thread_list(_, _, _)
map_add_to_thread_list(st, i, reg_sect) ==
  IF i > Len(bfd_sections(st.core_bfd)) THEN st
  ELSE map_add_to_thread_list(
         add_to_thread_list(st, bfd_sections(st.core_bfd)[i], reg_sect),
         i + 1, reg_sect)

(***************************************************************************)
(* core_open, after the push: the thread list is reset and built from the  *)
(* sections, and a current thread is chosen.                               *)
(***************************************************************************)
\* core_open that does not choose a current thread when no `.reg/<lwp>'
\* section is at the file offset of `.reg'.
core_open_threads_no_fallback(st) ==
  LET a == Called(init_thread_list(st), "init_thread_list")
      \* inferior_ptid = null_ptid; registers_changed ()
      b == [a EXCEPT !.inferior_ptid = null_ptid, !.regcache = NoRegisters]
  IN  Called(map_add_to_thread_list(
               b, 1, bfd_get_section_by_name(st.core_bfd, S_reg)),
             "add_to_thread_list")

core_open_threads(st) ==
  LET a == Called(init_thread_list(st), "init_thread_list")
      \* inferior_ptid = null_ptid; registers_changed ()
      b == [a EXCEPT !.inferior_ptid = null_ptid, !.regcache = NoRegisters]
      \* if (ptid_equal (inferior_ptid, null_ptid)), on the list c
      current(c, thread) ==
        IF c.inferior_ptid # null_ptid THEN c
        ELSE IF thread = null_ptid
        THEN add_thread(
               [inferior_appeared(c, CORELOW_PID)
                  EXCEPT !.inferior_ptid = pid_to_ptid(CORELOW_PID)],
               pid_to_ptid(CORELOW_PID))
        ELSE [c EXCEPT !.inferior_ptid = thread]   \* switch_to_thread
      found(c) == current(c, first_thread_of_process(c))
  IN  found(Called(map_add_to_thread_list(
                     b, 1, bfd_get_section_by_name(st.core_bfd, S_reg)),
                   "add_to_thread_list"))

(***************************************************************************)
(* The register reader.  An operation in progress is [st, err]: the state  *)
(* so far and "ok", or the error that ended it; a step leaves an ended     *)
(* operation alone.                                                        *)
(***************************************************************************)
Raise(st, err) == [st |-> st, err |-> err]

\* What the read of regset->flags through a null regset can do: the process
\* is killed, or the read yields a word with REGSET_VARIABLE_SIZE set or
\* clear.
Undefined == {"SIGSEGV", "flags_set", "flags_clear"}

\* regset->supply_regset (regset, regcache, -1, contents, size)
supply_regset(st, regset) ==
  Called([st EXCEPT !.regcache[Regsets[regset].supplies] = "REG_VALID"],
         "supply_regset")

\* core_vec->core_read_registers (regcache, contents, size, which, vma):
\* register set 0 is the general-purpose one, 2 the floating-point one.
core_read_registers(st, which) ==
  LET group == IF which = 0 THEN "gp" ELSE IF which = 2 THEN "fp" ELSE "none"
      a == Called(st, "core_read_registers")
  IN  IF group \in RegisterGroups
      THEN [a EXCEPT !.regcache[group] = "REG_VALID"]
      ELSE a

\* get_core_register_section without the test of the minimum size.
get_core_register_section_small_ok(r, regset, name, min_size, which, human_name, required, read_ok, ub) ==
  IF r.err # "ok" THEN r
  ELSE
    LET st == r.st
        cops == get_core_target_ops(st)
        lwp == ptid_get_lwp(st.inferior_ptid)
        \* the section sec of that name is read and handed to the decoder
        supply(section_name, sec, size) ==
          LET \* size != min_size && !(regset->flags & REGSET_VARIABLE_SIZE)
              null_deref == size # min_size /\ regset = NULL
              variable_size == IF regset = NULL THEN ub = "flags_set"
                               ELSE Regsets[regset].variable_size
              a == IF size # min_size /\ ~variable_size
                   THEN warning(st, << "Unexpected size of section", section_name >>)
                   ELSE st
          IN  IF null_deref /\ ub = "SIGSEGV" THEN Raise(st, "SIGSEGV")
              ELSE IF ~bfd_get_section_contents(sec, 0, size, read_ok)
              THEN Raise(warning(a, << "Couldn't read registers", human_name, name >>),
                         "ok")
              ELSE IF regset # NULL THEN Raise(supply_regset(a, regset), "ok")
              \* gdb_assert (cops->core_vec)
              ELSE IF a.cops_heap[cops].core_vec = NULL THEN Raise(a, "InternalError")
              ELSE Raise(core_read_registers(a, which), "ok")
        sized(section_name, sec) == supply(section_name, sec, sec.size)
        \* section = bfd_get_section_by_name (core_bfd, section_name)
        found(section_name, section) ==
          IF section = NULL
          THEN IF required
               THEN Raise(warning(st, << "Couldn't find registers", human_name >>), "ok")
               ELSE r
          ELSE sized(section_name, bfd_sections(st.core_bfd)[section])
        named(section_name) ==
          found(section_name, bfd_get_section_by_name(st.core_bfd, section_name))
    IN  named(IF lwp # 0 THEN name_slash_lwp(name, lwp) ELSE name)

get_core_register_section(r, regset, name, min_size, which, human_name, required, read_ok, ub) ==
  IF r.err # "ok" THEN r
  ELSE
    LET st == r.st
        cops == get_core_target_ops(st)
        lwp == ptid_get_lwp(st.inferior_ptid)
        \* the section sec of that name is read and handed to the decoder
        supply(section_name, sec, size) ==
          LET \* size != min_size && !(regset->flags & REGSET_VARIABLE_SIZE)
              null_deref == size # min_size /\ regset = NULL
              variable_size == IF regset = NULL THEN ub = "flags_set"
                               ELSE Regsets[regset].variable_size
              a == IF size # min_size /\ ~variable_size
                   THEN warning(st, << "Unexpected size of section", section_name >>)
                   ELSE st
          IN  IF size < min_size
              THEN Raise(warning(st, << "Section too small", section_name >>), "ok")
              ELSE IF null_deref /\ ub = "SIGSEGV" THEN Raise(st, "SIGSEGV")
              ELSE IF ~bfd_get_section_contents(sec, 0, size, read_ok)
              THEN Raise(warning(a, << "Couldn't read registers", human_name, name >>),
                         "ok")
              ELSE IF regset # NULL THEN Raise(supply_regset(a, regset), "ok")
              \* gdb_assert (cops->core_vec)
              ELSE IF a.cops_heap[cops].core_vec = NULL THEN Raise(a, "InternalError")
              ELSE Raise(core_read_registers(a, which), "ok")
        sized(section_name, sec) == supply(section_name, sec, sec.size)
        \* section = bfd_get_section_by_name (core_bfd, section_name)
        found(section_name, section) ==
          IF section = NULL
          THEN IF required
               THEN Raise(warning(st, << "Couldn't find registers", human_name >>), "ok")
               ELSE r
          ELSE sized(section_name, bfd_sections(st.core_bfd)[section])
        named(section_name) ==
          found(section_name, bfd_get_section_by_name(st.core_bfd, section_name))
    IN  named(IF lwp # 0 THEN name_slash_lwp(name, lwp) ELSE name)

\* get_core_registers_cb: the callback the iterator calls for a section.
get_core_registers_cb(r, sect_name, size, regset, human_name, read_ok, ub) ==
  LET required == (sect_name = S_reg)
      human == IF human_name # NULL THEN human_name
               ELSE IF sect_name = S_reg THEN "general-purpose"
               ELSE IF sect_name = S_reg2 THEN "floating-point"
               ELSE NULL
  IN  get_core_register_section(r, regset, sect_name, size, 0 - 1, human,
                                required, read_ok, ub)

\* gdbarch_iterate_over_regset_sections (gdbarch, get_core_registers_cb,
\* regcache, NULL), from the i-th section the iterator reports on.
RECURSIVE gdbarch_iterate_over_regset_sections(_, _, _, _, _)
gdbarch_iterate_over_regset_sections(r, gdbarch, i, read_ok, ub) ==
  LET reported == Gdbarch[gdbarch].regset_sections
  IN  IF i > Len(reported) THEN r
      ELSE gdbarch_iterate_over_regset_sections(
             get_core_registers_cb(r, reported[i].sect_name, reported[i].size,
                                   reported[i].regset, reported[i].human_name,
                                   read_ok, ub),
             gdbarch, i + 1, read_ok, ub)

\* gdbarch_iterate_over_regset_sections_p; an absent architecture provides
\* no iterator.
gdbarch_iterate_over_regset_sections_p(gdbarch) ==
  gdbarch # NULL /\ Gdbarch[gdbarch].iterate_over_regset_sections_p

\* A last loop of get_core_registers that marks nothing.
mark_unavailable_nothing(r) ==
  IF r.err # "ok" THEN r ELSE Raise(Called(r.st, "mark_unavailable"), "ok")

\* The last loop of get_core_registers: the registers not found in the core
\* are marked unavailable.
mark_unavailable(r) ==
  IF r.err # "ok" THEN r
  ELSE Raise(Called([r.st EXCEPT !.regcache =
                       [g \in RegisterGroups |->
                          IF @[g] = "REG_UNKNOWN" THEN "REG_UNAVAILABLE" ELSE @[g]]],
                    "mark_unavailable"),
             "ok")

\* get_core_registers (ops, regcache, regno): all the registers of the
\* current thread, whatever regno.
get_core_registers(st, read_ok, ub) ==
  LET cops == get_core_target_ops(st)
      core_gdbarch == st.cops_heap[cops].core_gdbarch
      core_vec == st.cops_heap[cops].core_vec
      a == Raise(Called(st, "get_core_registers"), "ok")
      b == get_core_register_section(a, NULL, S_reg, 0, 0, "general-purpose",
                                     TRUE, read_ok, ub)
      c == get_core_register_section(b, NULL, S_reg2, 0, 2, "floating-point",
                                     FALSE, read_ok, ub)
  IN  IF /\ ~(core_gdbarch # NULL /\ gdbarch_iterate_over_regset_sections_p(core_gdbarch))
         /\ (core_vec = NULL \/ ~Handlers[core_vec].core_read_registers)
      THEN Raise(warning(a.st, << "Can't fetch registers from this type of core file" >>),
                 "ok")
      ELSE IF gdbarch_iterate_over_regset_sections_p(core_gdbarch)
      THEN mark_unavailable(
             gdbarch_iterate_over_regset_sections(
               Raise(Called(a.st, "gdbarch_iterate_over_regset_sections"), "ok"),
               core_gdbarch, 1, read_ok, ub))
      ELSE mark_unavailable(c)

(***************************************************************************)
(* core_open, after post_create_inferior: the failing signal.              *)
(***************************************************************************)
\* The failing-signal step that clears no convenience variable.
core_open_signal_keeps_old(st) ==
  LET a == Called(st, "clear_exit_convenience_vars")
      siggy == bfd_core_file_failing_signal(a.core_bfd)
  IN  IF siggy > 0
      THEN Called([a EXCEPT !.exitsignal = siggy], "set_exitsignal")
      ELSE a

core_open_signal(st) ==
  LET a == Called([st EXCEPT !.exitsignal = 0], "clear_exit_convenience_vars")
      siggy == bfd_core_file_failing_signal(a.core_bfd)
  IN  IF siggy > 0
      THEN Called([a EXCEPT !.exitsignal = siggy], "set_exitsignal")
      ELSE a

(***************************************************************************)
(* core_open (arg, from_tty).  arg is the container the path names, or     *)
(* NULL for no argument; fault is the call that fails during this open,    *)
(* if any; ub is what undefined behaviour does, where the open meets it.   *)
(* The result is the state the open leaves and the error it raised ("ok":  *)
(* it returned).                                                           *)
(***************************************************************************)
Faults == {"none", "open", "validate_files", "build_section_table",
           "post_create_inferior"}

\* core_open that forgets discard_cleanups (old_chain) after the push.
core_open_session_keeps_cleanup(st, arg, fault, ub) ==
  LET a == Called([st EXCEPT !.core_bfd = arg], "install_container")
      free == {i \in CopsIds : ~a.cops_heap[i].live}
      cops == Min(free)
      b == [a EXCEPT !.cops_heap[cops] = NewCops]
      \* core_gdbarch = gdbarch_from_bfd (core_bfd)
      c == [b EXCEPT !.cops_heap[cops].core_gdbarch = gdbarch_from_bfd(arg)]
      sniffed == sniff_core_bfd(st.core_file_fns, arg, gdbarch_from_bfd(arg))
      c1 == CalledTimes(Called(c, "sniff_core_bfd"), "core_sniffer",
                        sniffed.sniffers)
      c2 == [c1 EXCEPT !.warnings = IF sniffed.warned
                                    THEN Append(@, << "ambiguous core format",
                                                      sniffed.matches >>)
                                    ELSE @]
      d == [c2 EXCEPT !.cops_heap[cops].core_vec = sniffed.yummy]
      e == Called([d EXCEPT !.cops_heap[cops].sections = arg,
                            !.sectabs = @ + 1],
                  "build_section_table")
      f == push_target(e, cops)
      g == core_open_threads(f)
      h == Called(g, "post_create_inferior")
      i == core_open_signal(Called(h, "target_update_thread_list"))
      \* target_fetch_registers (get_current_regcache (), -1)
      j == get_core_registers(Called(i, "target_fetch_registers"), TRUE, ub)
  IN  IF free = {} THEN Raise(a, "no memory")
      ELSE IF sniffed.err
        THEN Raise(core_close_cleanup(c1, cops), "UnrecognizedFormat")
      ELSE IF fault \in {"validate_files", "build_section_table"}
        THEN Raise(core_close_cleanup(d, cops),
                   IF fault = "validate_files" THEN "ValidateFailed"
                   ELSE "SectionTableError")
      ELSE IF fault = "post_create_inferior"
        THEN Raise(core_close_cleanup(h, cops), "PostCreateFailed")
      ELSE j

\* core_open that builds the thread list before it pushes the target.
core_open_session_threads_first(st, arg, fault, ub) ==
  LET a == Called([st EXCEPT !.core_bfd = arg], "install_container")
      free == {i \in CopsIds : ~a.cops_heap[i].live}
      cops == Min(free)
      b == [a EXCEPT !.cops_heap[cops] = NewCops]
      \* core_gdbarch = gdbarch_from_bfd (core_bfd)
      c == [b EXCEPT !.cops_heap[cops].core_gdbarch = gdbarch_from_bfd(arg)]
      sniffed == sniff_core_bfd(st.core_file_fns, arg, gdbarch_from_bfd(arg))
      c1 == CalledTimes(Called(c, "sniff_core_bfd"), "core_sniffer",
                        sniffed.sniffers)
      c2 == [c1 EXCEPT !.warnings = IF sniffed.warned
                                    THEN Append(@, << "ambiguous core format",
                                                      sniffed.matches >>)
                                    ELSE @]
      d == [c2 EXCEPT !.cops_heap[cops].core_vec = sniffed.yummy]
      e == Called([d EXCEPT !.cops_heap[cops].sections = arg,
                            !.sectabs = @ + 1],
                  "build_section_table")
      f == core_open_threads(e)
      g == push_target(f, cops)
      h == Called(g, "post_create_inferior")
      i == core_open_signal(Called(h, "target_update_thread_list"))
      \* target_fetch_registers (get_current_regcache (), -1)
      j == get_core_registers(Called(i, "target_fetch_registers"), TRUE, ub)
  IN  IF free = {} THEN Raise(a, "no memory")
      ELSE IF sniffed.err
        THEN Raise(core_close_cleanup(c1, cops), "UnrecognizedFormat")
      ELSE IF fault \in {"validate_files", "build_section_table"}
        THEN Raise(core_close_cleanup(d, cops),
                   IF fault = "validate_files" THEN "ValidateFailed"
                   ELSE "SectionTableError")
      ELSE IF fault = "post_create_inferior"
        THEN Raise(h, "PostCreateFailed")
      ELSE j

\* From the installation of the container to the end.
core_open_session(st, arg, fault, ub) ==
  LET a == Called([st EXCEPT !.core_bfd = arg], "install_container")
      free == {i \in CopsIds : ~a.cops_heap[i].live}
      cops == Min(free)
      b == [a EXCEPT !.cops_heap[cops] = NewCops]
      \* core_gdbarch = gdbarch_from_bfd (core_bfd)
      c == [b EXCEPT !.cops_heap[cops].core_gdbarch = gdbarch_from_bfd(arg)]
      sniffed == sniff_core_bfd(st.core_file_fns, arg, gdbarch_from_bfd(arg))
      c1 == CalledTimes(Called(c, "sniff_core_bfd"), "core_sniffer",
                        sniffed.sniffers)
      c2 == [c1 EXCEPT !.warnings = IF sniffed.warned
                                    THEN Append(@, << "ambiguous core format",
                                                      sniffed.matches >>)
                                    ELSE @]
      d == [c2 EXCEPT !.cops_heap[cops].core_vec = sniffed.yummy]
      e == Called([d EXCEPT !.cops_heap[cops].sections = arg,
                            !.sectabs = @ + 1],
                  "build_section_table")
      f == push_target(e, cops)
      g == core_open_threads(f)
      h == Called(g, "post_create_inferior")
      i == core_open_signal(Called(h, "target_update_thread_list"))
      \* target_fetch_registers (get_current_regcache (), -1)
      j == get_core_registers(Called(i, "target_fetch_registers"), TRUE, ub)
  IN  IF free = {} THEN Raise(a, "no memory")
      ELSE IF sniffed.err
        THEN Raise(core_close_cleanup(c1, cops), "UnrecognizedFormat")
      ELSE IF fault \in {"validate_files", "build_section_table"}
        THEN Raise(core_close_cleanup(d, cops),
                   IF fault = "validate_files" THEN "ValidateFailed"
                   ELSE "SectionTableError")
      ELSE IF fault = "post_create_inferior"
        THEN Raise(h, "PostCreateFailed")
      ELSE j

core_open(st, arg, fault, ub) ==
  LET pre == Called(st, "target_preopen")
      temp == gdb_bfd_ref(pre, arg)
  IN  IF arg = NULL THEN Raise(pre, "UsageError")
      \* gdb_open_cloexec or gdb_bfd_fopen fails: perror_with_name
      ELSE IF fault = "open" THEN Raise(pre, "OpenFailed")
      ELSE IF ~bfd_check_format(arg) /\ ~gdb_check_format(temp.core_file_fns, arg)
        THEN Raise(gdb_bfd_unref(temp, arg), "NotACore")
      ELSE core_open_session(unpush_target(temp), arg, fault, ub)

(***************************************************************************)
(* core_xclose (self) on an instance that core_xclose already freed.  The  *)
(* block of cops is freed memory: what cops->core_data.sections reads and  *)
(* what the second xfree of a block does is undefined.  The allocator      *)
(* detects the second free and aborts, or the frees are made again on a    *)
(* stale pointer, or on a pointer the allocator has overwritten with zero. *)
(***************************************************************************)
Freed == {"SIGABRT", "stale", "zero"}

core_xclose_freed(st, self, ub) ==
  LET closed(a) ==
        IF ub = "SIGABRT" THEN Raise(a, "SIGABRT")
        \* xfree (cops->core_data.sections); xfree (cops)
        ELSE Raise(Called(IF ub = "stale" THEN Called(a, "xfree_sections") ELSE a,
                          "xfree_cops"),
                   "heap corrupted")
  IN  closed(core_xclose_bfd(Called(st, "core_xclose")))

(***************************************************************************)
(* core_detach (ops, args, from_tty).                                      *)
(***************************************************************************)
\* core_detach that pops the target before it looks at its arguments.
core_detach_unpush_first(st, ops, args) ==
  IF args # NULL THEN Raise(unpush_instance(st, ops), "UsageError")
  ELSE Raise(Called(unpush_instance(st, ops), "reinit_frame_cache"), "ok")

core_detach(st, ops, args) ==
  IF args # NULL THEN Raise(st, "UsageError")
  ELSE Raise(Called(unpush_instance(st, ops), "reinit_frame_cache"), "ok")

(***************************************************************************)
(* The partial-transfer router.                                            *)
(***************************************************************************)
\* The annexes of the requests: NULL (0) or an index of Annexes.
Annexes == << <<"3">> \o S_slash_regs, <<"3">> \o S_slash_mem, <<"9">> \o S_slash_regs >>

Objects == {"MEMORY", "AUXV", "WCOOKIE", "LIBRARIES", "LIBRARIES_AIX", "SPU",
            "SIGNAL_INFO", "OTHER"}

\* sscanf (name, "SPU/%d/regs%n", &fd, &pos): pos stays 0 unless the whole
\* format matched; %d wants at least one digit after an optional sign.
sscanf_spu_regs(name) ==
  LET nomatch == [pos |-> 0, fd |-> 0]
      t == IF startswith(name, S_SPU_slash) THEN SkipSpace(Drop(name, 4)) ELSE << >>
      signed == t # << >> /\ Head(t) \in {"-", "+"}
      u == IF signed THEN Tail(t) ELSE t
      n == DigitCount(u)
      val == DigitRun(u, 0)
      rest == Drop(u, n)
  IN  IF ~startswith(name, S_SPU_slash) \/ n = 0 \/ ~startswith(rest, S_slash_regs)
      THEN nomatch
      ELSE [pos |-> Len(name) - Len(rest) + 5,
            fd |-> IF signed /\ Head(t) = "-" THEN 0 - val ELSE val]

\* store_unsigned_integer (addr, 4, byte_order, val): the four bytes of val,
\* most significant first in big endian, least significant first in little.
store_unsigned_integer(big, val) ==
  LET b0 == val % 256
      b1 == (val \div 256) % 256
      b2 == (val \div 65536) % 256
      b3 == (val \div 16777216) % 256
  IN  IF big THEN << b3, b2, b1, b0 >> ELSE << b0, b1, b2, b3 >>

\* A read buffer of len bytes nothing was stored into (-1: untouched).
NoByte == 0 - 1
EmptyBuf(len) == [i \in 1..len |-> NoByte]

\* The buffer after bytes were stored from index at (counted from 0) on.
StoreAt(buf, at, bytes) ==
  [i \in 1..Len(buf) |->
     IF at < i /\ i <= at + Len(bytes) THEN bytes[i - at] ELSE buf[i]]

\* add_to_spuid_list: list is [buf, offset, len, pos, written].  The name is
\* scanned once, and what the scan gave is one value.
add_to_spuid_list(abfd, asect, list) ==
  LET add(scanned) ==
        IF scanned.pos = 0 THEN list
        ELSE IF list.pos >= list.offset /\ list.pos + 4 <= list.offset + list.len
          THEN [list EXCEPT
                  !.buf = StoreAt(@, list.pos - list.offset,
                                  store_unsigned_integer(bfd_big_endian(abfd),
                                                         scanned.fd)),
                  !.written = @ + 4,
                  !.pos = @ + 4]
          ELSE [list EXCEPT !.pos = @ + 4]
  IN  CHOOSE out \in {add(scanned) : scanned \in {sscanf_spu_regs(asect.name)}} :
        TRUE

\* bfd_map_over_sections (core_bfd, add_to_spuid_list, &list), from section
\* i on.  The list a call leaves is one value, which the next call takes.
RECURSIVE map_add_to_spuid_list(_, _, _)
map_add_to_spuid_list(abfd, i, list) ==
  IF i > Len(bfd_sections(abfd)) THEN list
  ELSE CHOOSE done \in
         { map_add_to_spuid_list(abfd, i + 1, next) :
             next \in {add_to_spuid_list(abfd, bfd_sections(abfd)[i], list)} } :
         TRUE

\* A result of core_xfer_partial: the status, *xfered_len, and what was
\* stored into the read buffer where the model follows the bytes.
Xferred(status, n) == [status |-> status, xfered |-> n, buf |-> << >>]

\* The clipped read without the `size == 0' test.
xfer_section_no_zero_check(st, name, offset, len, read_ok) ==
  LET clipped(sec) ==
        LET left == sec.size - offset
            n == IF left > len THEN len ELSE left
        IN  IF offset >= sec.size THEN Xferred("EOF", 0)
            ELSE IF ~read_ok THEN Xferred("E_IO", 0)
            ELSE [Xferred("OK", n) EXCEPT !.buf = section_contents(sec, offset, n)]
      found(section) ==
        IF section = NULL THEN Xferred("E_IO", 0)
        ELSE clipped(bfd_sections(st.core_bfd)[section])
  IN  found(bfd_get_section_by_name(st.core_bfd, name))

\* The clipped read that reads the bytes from the start of the section.
xfer_section_from_start(st, name, offset, len, read_ok) ==
  LET clipped(sec) ==
        LET left == sec.size - offset
            n == IF left > len THEN len ELSE left
        IN  IF offset >= sec.size THEN Xferred("EOF", 0)
            ELSE IF n = 0 THEN Xferred("EOF", 0)
            ELSE IF ~read_ok THEN Xferred("E_IO", 0)
            ELSE [Xferred("OK", n) EXCEPT !.buf = section_contents(sec, 0, n)]
      found(section) ==
        IF section = NULL THEN Xferred("E_IO", 0)
        ELSE clipped(bfd_sections(st.core_bfd)[section])
  IN  found(bfd_get_section_by_name(st.core_bfd, name))

\* The read of a whole section named name, clipped to [offset, offset + len):
\* the TARGET_OBJECT_AUXV, TARGET_OBJECT_WCOOKIE and SPU-with-annex cases.
xfer_section(st, name, offset, len, read_ok) ==
  LET clipped(sec) ==
        LET left == sec.size - offset
            n == IF left > len THEN len ELSE left
        IN  IF offset >= sec.size THEN Xferred("EOF", 0)
            ELSE IF n = 0 THEN Xferred("EOF", 0)
            ELSE IF ~read_ok THEN Xferred("E_IO", 0)
            ELSE [Xferred("OK", n) EXCEPT !.buf = section_contents(sec, offset, n)]
      found(section) ==
        IF section = NULL THEN Xferred("E_IO", 0)
        ELSE clipped(bfd_sections(st.core_bfd)[section])
  IN  found(bfd_get_section_by_name(st.core_bfd, name))

\* case TARGET_OBJECT_SPU, which the two LIBRARIES cases fall through to.
xfer_spu(st, annex, readbuf, offset, len, read_ok) ==
  IF readbuf /\ annex # NULL
  THEN xfer_section(st, S_SPU_slash \o Annexes[annex], offset, len, read_ok)
  ELSE IF readbuf
  THEN LET answer(list) ==
             IF list.written = 0 THEN Xferred("EOF", 0)
             ELSE [Xferred("OK", list.written) EXCEPT !.buf = list.buf]
       IN  answer(map_add_to_spuid_list(
                    st.core_bfd, 1,
                    [buf |-> EmptyBuf(len), offset |-> offset, len |-> len,
                     pos |-> 0, written |-> 0]))
  ELSE Xferred("E_IO", 0)

\* An architecture's shared-library extractor: it reports len bytes, or 0.
gdbarch_core_xfer(len, read_ok) == IF read_ok THEN len ELSE 0

xfer_libraries_aix(st, cops, annex, readbuf, offset, len, read_ok) ==
  LET arch == st.cops_heap[cops].core_gdbarch
  IN  IF arch # NULL /\ Gdbarch[arch].core_xfer_shared_libraries_aix_p
      THEN IF ~readbuf THEN Xferred("E_IO", 0)
           ELSE IF gdbarch_core_xfer(len, read_ok) = 0 THEN Xferred("EOF", 0)
           ELSE Xferred("OK", gdbarch_core_xfer(len, read_ok))
      ELSE xfer_spu(st, annex, readbuf, offset, len, read_ok)

xfer_libraries(st, cops, annex, readbuf, offset, len, read_ok) ==
  LET arch == st.cops_heap[cops].core_gdbarch
  IN  IF arch # NULL /\ Gdbarch[arch].core_xfer_shared_libraries_p
      THEN IF ~readbuf THEN Xferred("E_IO", 0)
           ELSE IF gdbarch_core_xfer(len, read_ok) = 0 THEN Xferred("EOF", 0)
           ELSE Xferred("OK", gdbarch_core_xfer(len, read_ok))
      ELSE xfer_libraries_aix(st, cops, annex, readbuf, offset, len, read_ok)

\* The section table build_section_table makes of a container: its
\* sections of the memory image.
section_table(abfd) == SelectSeq(bfd_sections(abfd), LAMBDA sec : sec.alloc)

\* The memory service: the section of the table that holds the address, the
\* request clipped to it; a write is rejected.
section_table_xfer_memory_partial(st, cops, readbuf, offset, len, read_ok) ==
  LET \* the request clipped to the section p
      clipped(p) ==
        LET left == p.vma + p.size - offset
            n == IF left > len THEN len ELSE left
        IN  IF n = 0 THEN Xferred("EOF", 0)
            ELSE IF ~read_ok THEN Xferred("E_IO", 0)
            ELSE Xferred("OK", n)
      found(tab, hits) ==
        IF hits = {} THEN Xferred("EOF", 0) ELSE clipped(tab[Min(hits)])
      in(tab) ==
        found(tab, {i \in 1..Len(tab) :
                      tab[i].vma <= offset /\ offset < tab[i].vma + tab[i].size})
  IN  IF ~readbuf THEN Xferred("E_IO", 0)
      ELSE in(section_table(st.cops_heap[cops].sections))

\* get_core_siginfo: -1 on failure, else the number of bytes read.
get_core_siginfo(st, offset, len, read_ok) ==
  LET lwp == ptid_get_lwp(st.inferior_ptid)
      section_name == IF lwp # 0 THEN name_slash_lwp(S_siginfo, lwp) ELSE S_siginfo
      read(section) ==
        IF section = NULL THEN 0 - 1
        ELSE IF ~bfd_get_section_contents(bfd_sections(st.core_bfd)[section],
                                          offset, len, read_ok)
          THEN 0 - 1
        ELSE len
  IN  read(bfd_get_section_by_name(st.core_bfd, section_name))

\* case TARGET_OBJECT_SIGNAL_INFO without the test of readbuf.
xfer_signal_info_write_too(st, readbuf, offset, len, read_ok) ==
  IF get_core_siginfo(st, offset, len, read_ok) > 0
  THEN Xferred("OK", len)
  ELSE Xferred("E_IO", 0)

\* case TARGET_OBJECT_SIGNAL_INFO
xfer_signal_info(st, readbuf, offset, len, read_ok) ==
  IF readbuf /\ get_core_siginfo(st, offset, len, read_ok) > 0
  THEN Xferred("OK", len)
  ELSE Xferred("E_IO", 0)

\* core_xfer_partial.  readbuf: a read request (a read buffer and no write
\* buffer), else a write request.  read_ok: whether the container lets the
\* bytes be read (bfd_get_section_contents).
core_xfer_partial(st, object, annex, readbuf, offset, len, read_ok) ==
  LET cops == get_core_target_ops(st)
  IN  CASE object = "MEMORY" ->
             section_table_xfer_memory_partial(st, cops, readbuf, offset, len,
                                               read_ok)
        [] object = "AUXV" ->
             IF readbuf THEN xfer_section(st, S_auxv, offset, len, read_ok)
             ELSE Xferred("E_IO", 0)
        [] object = "WCOOKIE" ->
             IF readbuf THEN xfer_section(st, S_wcookie, offset, len, read_ok)
             ELSE Xferred("E_IO", 0)
        [] object = "LIBRARIES" ->
             xfer_libraries(st, cops, annex, readbuf, offset, len, read_ok)
        [] object = "LIBRARIES_AIX" ->
             xfer_libraries_aix(st, cops, annex, readbuf, offset, len, read_ok)
        [] object = "SPU" ->
             xfer_spu(st, annex, readbuf, offset, len, read_ok)
        [] object = "SIGNAL_INFO" ->
             xfer_signal_info(st, readbuf, offset, len, read_ok)
        [] OTHER -> Xferred("DELEGATED", 0)

(***************************************************************************)
(* The state machine.                                                      *)
(***************************************************************************)
NoXfer == [object |-> "none", annex |-> NULL, readbuf |-> FALSE, offset |-> 0,
           len |-> 0, read_ok |-> FALSE, status |-> "none", xfered |-> 0,
           buf |-> << >>, from |-> 0, got |-> << >>]

\* What the caller takes from the read buffer after a request: the first
\* *xfered_len bytes, where the model follows the bytes.
Taken(r) ==
  IF r.status = "OK" /\ r.buf # << >> THEN SubSeq(r.buf, 1, r.xfered) ELSE << >>


Startup ==
  [ core_file_fns |-> << >>, core_bfd |-> NULL,
    bfd_refs |-> [c \in ContainerIds |-> 0],
    target_stack |-> {}, cops_heap |-> [i \in CopsIds |-> FreeCops],
    sectabs |-> 0, inferior |-> [pid |-> 0, fake_pid_p |-> FALSE],
    thread_list |-> << >>, inferior_ptid |-> null_ptid, exitsignal |-> 0,
    regcache |-> NoRegisters, warnings |-> << >>, log |-> << >> ]

\* What an open leaves: the inferior, the thread set, the current thread,
\* and what the backend holds (container references, section tables).
Snapshot(st) ==
  [ inferior |-> st.inferior,
    threads |-> {st.thread_list[i] : i \in 1..Len(st.thread_list)},
    current |-> st.inferior_ptid,
    refs |-> st.bfd_refs,
    sectabs |-> st.sectabs ]
NoSnapshot ==
  [ inferior |-> Startup.inferior, threads |-> {}, current |-> null_ptid,
    refs |-> Startup.bfd_refs, sectabs |-> 0 ]

NoCycle == [phase |-> 0, c |-> NULL, first |-> NoSnapshot, second |-> NoSnapshot]

Is(st) ==
  /\ core_file_fns = st.core_file_fns
  /\ core_bfd = st.core_bfd
  /\ bfd_refs = st.bfd_refs
  /\ target_stack = st.target_stack
  /\ cops_heap = st.cops_heap
  /\ sectabs = st.sectabs
  /\ inferior = st.inferior
  /\ thread_list = st.thread_list
  /\ inferior_ptid = st.inferior_ptid
  /\ exitsignal = st.exitsignal
  /\ regcache = st.regcache
  /\ warnings = st.warnings
  /\ log = st.log

Becomes(st) ==
  /\ core_file_fns' = st.core_file_fns
  /\ core_bfd' = st.core_bfd
  /\ bfd_refs' = st.bfd_refs
  /\ target_stack' = st.target_stack
  /\ cops_heap' = st.cops_heap
  /\ sectabs' = st.sectabs
  /\ inferior' = st.inferior
  /\ thread_list' = st.thread_list
  /\ inferior_ptid' = st.inferior_ptid
  /\ exitsignal' = st.exitsignal
  /\ regcache' = st.regcache
  /\ warnings' = st.warnings
  /\ log' = st.log

Did(op, arg, err) ==
  [op |-> op, arg |-> arg, err |-> err,
   pre_stack |-> target_stack, pre_bfd |-> core_bfd, pre_inferior |-> inferior,
   pre_threads |-> thread_list, pre_ptid |-> inferior_ptid]

Init ==
  /\ Is(Startup)
  /\ last = [op |-> "startup", arg |-> NULL, err |-> "ok",
             pre_stack |-> {}, pre_bfd |-> NULL,
             pre_inferior |-> Startup.inferior,
             pre_threads |-> << >>, pre_ptid |-> null_ptid]
  /\ cycle = NoCycle
  /\ xfer = NoXfer

\* _initialize_* of a core file register reader, at gdb startup.
Register(cf) ==
  /\ last.op = "startup"
  /\ Len(core_file_fns) < MaxHandlers
  /\ \A i \in 1..Len(core_file_fns) : core_file_fns[i] # cf
  /\ core_file_fns' = deprecated_add_core_fns(core_file_fns, cf)
  /\ UNCHANGED << core_bfd, bfd_refs, target_stack, cops_heap, sectabs, inferior,
                  thread_list, inferior_ptid, exitsignal, regcache, warnings,
                  last, log, cycle, xfer >>

\* The round trip open, close, open of one container under observation.
CycleAfterOpen(arg, r) ==
  IF r.err # "ok" THEN NoCycle
  ELSE IF cycle.phase = 2 /\ cycle.c = arg
  THEN [cycle EXCEPT !.phase = 3, !.second = Snapshot(r.st)]
  ELSE [phase |-> 1, c |-> arg, first |-> Snapshot(r.st), second |-> NoSnapshot]

CycleAfterDetach(r) ==
  IF r.err # "ok" THEN cycle
  ELSE IF cycle.phase = 1 THEN [cycle EXCEPT !.phase = 2]
  ELSE IF cycle.phase = 3
  THEN [cycle EXCEPT !.phase = 2, !.first = cycle.second, !.second = NoSnapshot]
  ELSE NoCycle

\* The process is running: no undefined behaviour has killed it.
Killed == {"SIGSEGV", "SIGABRT", "heap corrupted"}
Alive == last.err \notin Killed

\* The command `core-file [path]'.
CoreOpen(arg, fault, ub) ==
  LET returns(r) ==
        /\ r.err # "no memory"
        /\ Becomes(r.st)
        /\ last' = Did("open", arg, r.err)
        /\ cycle' = CycleAfterOpen(arg, r)
        /\ xfer' = NoXfer
  IN  /\ Alive
      /\ returns(core_open(St, arg, fault, ub))

\* The command `detach [args]' with the core target on the stack.
CoreDetach(args) ==
  LET returns(r) ==
        /\ Becomes(r.st)
        /\ last' = Did("detach", args, r.err)
        /\ cycle' = CycleAfterDetach(r)
        /\ xfer' = NoXfer
      with(ops) == ops # NULL /\ returns(core_detach(St, ops, args))
  IN  /\ Alive
      /\ with(get_core_target_ops(St))

\* The close of the instance the last detach closed and freed, once more.
CoreXcloseAgain(ub) ==
  LET returns(r) ==
        /\ Becomes(r.st)
        /\ last' = Did("close", Min(last.pre_stack), r.err)
        /\ UNCHANGED << cycle, xfer >>
  IN  /\ Alive
      /\ last.op = "detach"
      /\ last.err = "ok"
      /\ last.pre_stack # {}
      /\ returns(core_xclose_freed(St, Min(last.pre_stack), ub))

\* The registers of the current thread are fetched again, after the cache
\* was flushed.
FetchRegisters(read_ok, ub) ==
  LET returns(r) ==
        /\ Becomes(r.st)
        /\ last' = Did("fetch", NULL, r.err)
        /\ UNCHANGED << cycle, xfer >>
  IN  /\ Alive
      /\ get_core_target_ops(St) # NULL
      /\ returns(get_core_registers([St EXCEPT !.regcache = NoRegisters],
                                    read_ok, ub))

\* A transfer request that reaches the core target.
Xfer(object, annex, readbuf, offset, len, read_ok) ==
  LET returns(r) ==
        xfer' = [object |-> object, annex |-> annex, readbuf |-> readbuf,
                 offset |-> offset, len |-> len, read_ok |-> read_ok,
                 status |-> r.status, xfered |-> r.xfered, buf |-> r.buf,
                 from |-> offset, got |-> Taken(r)]
  IN  /\ get_core_target_ops(St) # NULL
      /\ xfer = NoXfer
      /\ returns(core_xfer_partial(St, object, annex, readbuf, offset, len,
                                   read_ok))
      /\ UNCHANGED << core_file_fns, core_bfd, bfd_refs, target_stack, cops_heap,
                      sectabs, inferior, thread_list, inferior_ptid, exitsignal,
                      regcache, warnings, last, log, cycle >>

\* The caller of a read that was answered OK asks for what follows: the
\* same request, its offset advanced by the number of bytes transferred.
XferAdvance(read_ok) ==
  LET returns(r) ==
        xfer' = [xfer EXCEPT !.offset = @ + xfer.xfered, !.read_ok = read_ok,
                             !.status = r.status, !.xfered = r.xfered,
                             !.buf = r.buf, !.got = @ \o Taken(r)]
  IN  /\ get_core_target_ops(St) # NULL
      /\ xfer # NoXfer
      /\ xfer.readbuf
      /\ xfer.status = "OK"
      /\ returns(core_xfer_partial(St, xfer.object, xfer.annex, TRUE,
                                   xfer.offset + xfer.xfered, xfer.len, read_ok))
      /\ UNCHANGED << core_file_fns, core_bfd, bfd_refs, target_stack, cops_heap,
                      sectabs, inferior, thread_list, inferior_ptid, exitsignal,
                      regcache, warnings, last, log, cycle >>

\* The caller takes the result of its request.
XferReturn ==
  /\ xfer # NoXfer
  /\ xfer' = NoXfer
  /\ UNCHANGED << core_file_fns, core_bfd, bfd_refs, target_stack, cops_heap,
                  sectabs, inferior, thread_list, inferior_ptid, exitsignal,
                  regcache, warnings, last, log, cycle >>

\* The runs of an open: a call fails, or none does and the open reaches the
\* register fetch, where undefined behaviour can be met.
OpenRuns ==
  {<< fault, "SIGSEGV" >> : fault \in Faults \ {"none"}}
    \cup {<< "none", ub >> : ub \in Undefined}

Next ==
  \/ \E cf \in HandlerIds : Register(cf)
  \/ CoreOpen(NULL, "none", "SIGSEGV")
  \/ \E arg \in ContainerIds, how \in OpenRuns : CoreOpen(arg, how[1], how[2])
  \/ \E args \in {NULL, 1} : CoreDetach(args)

Spec == Init /\ [][Next]_vars

(***************************************************************************)
(* The transfer requests and the register fetches, on every session an     *)
(* open can leave.                                                         *)
(***************************************************************************)
InitXfer ==
  \E fns \in {<< 1 >>, << 2, 1 >>, << 3 >>}, arg \in ContainerIds :
    LET returned(r) ==
          /\ r.err \in {"ok", "InternalError"}
          /\ Is(r.st)
          /\ last = [op |-> "open", arg |-> arg, err |-> r.err,
                     pre_stack |-> {}, pre_bfd |-> NULL,
                     pre_inferior |-> Startup.inferior,
                     pre_threads |-> << >>, pre_ptid |-> null_ptid]
          /\ cycle = [phase |-> 1, c |-> arg, first |-> Snapshot(r.st),
                      second |-> NoSnapshot]
          /\ xfer = NoXfer
    IN  returned(core_open([Startup EXCEPT !.core_file_fns = fns], arg, "none",
                           "flags_set"))

NextXfer ==
  \/ /\ xfer = NoXfer
     /\ last.op = "open"
     /\ \E object \in Objects, annex \in 0..Len(Annexes), readbuf \in BOOLEAN,
           offset \in 0..MaxOffset, len \in 0..MaxLen, read_ok \in BOOLEAN :
          Xfer(object, annex, readbuf, offset, len, read_ok)
  \/ /\ xfer = NoXfer
     /\ last.op = "open"
     /\ \E read_ok \in BOOLEAN, ub \in Undefined : FetchRegisters(read_ok, ub)
  \/ XferReturn

SpecXfer == InitXfer /\ [][NextXfer]_vars

(***************************************************************************)
(* The reads of a caller that follows the partial-transfer protocol on an  *)
(* open session: after every OK it asks again from where the answer        *)
(* ended, and it takes the result when the answer is not OK.               *)
(***************************************************************************)
ReadObjects == {"AUXV", "WCOOKIE"}

NextRead ==
  \/ /\ xfer = NoXfer
     /\ \E object \in ReadObjects, offset \in 0..MaxOffset, len \in 0..MaxLen,
           read_ok \in BOOLEAN :
          Xfer(object, NULL, TRUE, offset, len, read_ok)
  \/ \E read_ok \in BOOLEAN : XferAdvance(read_ok)
  \/ xfer.status # "OK" /\ XferReturn

SpecRead ==
  InitXfer /\ [][NextRead]_vars /\ WF_vars(\E read_ok \in BOOLEAN : XferAdvance(read_ok))

\* The same caller reading the list of SPU contexts (a null annex).
NextSpuRead ==
  \/ /\ xfer = NoXfer
     /\ \E offset \in 0..MaxOffset, len \in 0..MaxLen, read_ok \in BOOLEAN :
          Xfer("SPU", NULL, TRUE, offset, len, read_ok)
  \/ \E read_ok \in BOOLEAN : XferAdvance(read_ok)
  \/ xfer.status # "OK" /\ XferReturn

SpecSpuRead == InitXfer /\ [][NextSpuRead]_vars

(***************************************************************************)
(* The caller that closes an instance again after the detach that closed   *)
(* and freed it.  The target stack calls to_xclose once for an instance;   *)
(* this caller is the one the idempotence of close is stated for.          *)
(***************************************************************************)
NextClose ==
  \/ \E arg \in ContainerIds : CoreOpen(arg, "none", "flags_set")
  \/ \E args \in {NULL, 1} : CoreDetach(args)
  \/ \E ub \in Freed : CoreXcloseAgain(ub)

SpecClose == InitXfer /\ [][NextClose]_vars

(***************************************************************************)
(* The properties.                                                         *)
(***************************************************************************)
Opened == last.op = "open" /\ last.err = "ok"
Arg == Containers[last.arg]

HeldContainers == {c \in ContainerIds : bfd_refs[c] > 0}
LiveCops == {i \in CopsIds : cops_heap[i].live}

\* The place of the first call of that name in the log, 0 if there is none.
FirstCall(what) ==
  LET at == {i \in 1..Len(log) : log[i] = what}
  IN  IF at = {} THEN 0 ELSE Min(at)

\* C1: after any sequence of opens, closes and detaches at most one core
\* session exists: at most one instance of the backend is on the target
\* stack, it is the only one allocated, the only container reference held is
\* the one of the session's container, and an open made while a session is
\* attached closes the old session before it pushes the new one.
C1_AtMostOneSession ==
  /\ Cardinality(target_stack) <= 1
  /\ LiveCops = target_stack
  /\ \A c \in ContainerIds : bfd_refs[c] \in {0, 1}
  /\ HeldContainers = (IF target_stack = {} THEN {} ELSE {core_bfd})
  /\ (Opened /\ last.pre_stack # {}) =>
        /\ FirstCall("core_xclose") # 0
        /\ FirstCall("core_xclose") < FirstCall("push_target")

\* An open that succeeded while another session was attached.
C1_Witness ==
  /\ Opened
  /\ last.pre_stack # {}
  /\ last.pre_bfd # last.arg
  /\ target_stack # {}

PrePushErrors == {"OpenFailed", "NotACore", "UnrecognizedFormat",
                  "ValidateFailed", "SectionTableError"}
FailedBeforePush == last.op = "open" /\ last.err \in PrePushErrors

\* Nothing of a half-constructed session is left: every section table, every
\* container reference and every allocated instance belongs to a pushed
\* session, and an inferior exists only with a pushed session.
NoHalfSession ==
  /\ sectabs = Cardinality(target_stack)
  /\ LiveCops = target_stack
  /\ HeldContainers = (IF target_stack = {} THEN {} ELSE {core_bfd})
  /\ \A c \in ContainerIds : bfd_refs[c] <= 1
  /\ (target_stack = {}) =>
        /\ core_bfd = NULL
        /\ inferior.pid = 0
        /\ thread_list = << >>
        /\ inferior_ptid = null_ptid

\* C2, as stated: an open that fails before the push leaves the section
\* table freed, the container unreferenced, no inferior created and the
\* target stack identical to what it was before the open, with or without a
\* previously attached session.
C2_Original ==
  FailedBeforePush =>
    /\ NoHalfSession
    /\ target_stack = last.pre_stack
    /\ inferior = last.pre_inferior

\* C2, amended: an open that fails before the push leaves nothing of the
\* new session (section table freed, container unreferenced, no inferior
\* created, no instance on the stack).  The target stack is identical to
\* what it was before when the failure is an open failure or not-a-core;
\* when it is a later failure (unrecognized format, validation, section
\* table) the previously attached session, if any, has been popped and
\* closed, and no core backend is on the stack.
C2_FailedOpenLeavesNoSession ==
  FailedBeforePush =>
    /\ NoHalfSession
    /\ last.err \in {"OpenFailed", "NotACore"} =>
          /\ target_stack = last.pre_stack
          /\ core_bfd = last.pre_bfd
          /\ inferior = last.pre_inferior
    /\ last.err \in {"UnrecognizedFormat", "ValidateFailed", "SectionTableError"} =>
          /\ target_stack = {}
          /\ FirstCall("core_xclose") # 0
          /\ FirstCall("push_target") = 0

\* A section-table error in an open made while a session was attached.
C2_Witness ==
  /\ last.op = "open"
  /\ last.err = "SectionTableError"
  /\ last.pre_stack # {}

\* C3: an open whose file could be opened gets past validation iff BFD
\* accepts the file as a core or a registered handler's check_format accepts
\* it; otherwise it fails with NotACore, the temporary container is released
\* and never installed, and the target stack and the inferior are unchanged.
C3_Validation ==
  (last.op = "open" /\ last.arg # NULL /\ last.err # "OpenFailed") =>
    LET accepted ==
          \/ Arg.is_core
          \/ \E h \in {core_file_fns[i] : i \in 1..Len(core_file_fns)} :
               Arg.format \in Handlers[h].check_format
    IN  /\ (last.err # "NotACore") <=> accepted
        /\ (last.err = "NotACore") =>
              /\ bfd_refs[last.arg] = (IF core_bfd = last.arg THEN 1 ELSE 0)
              /\ FirstCall("install_container") = 0
              /\ core_bfd = last.pre_bfd
              /\ target_stack = last.pre_stack
              /\ inferior = last.pre_inferior

\* A file neither BFD nor any of the registered handlers recognises, opened
\* while a session is attached.
C3_Witness ==
  /\ last.op = "open"
  /\ last.err = "NotACore"
  /\ last.pre_stack # {}
  /\ \E i \in 1..Len(core_file_fns) : Handlers[core_file_fns[i]].check_format # {}

\* The sections `.reg/<lwp>' with a decimal <lwp>.
IsDecimal(str) == str # << >> /\ DigitCount(str) = Len(str)
DecimalLwps(c) ==
  {DigitRun(Drop(c.sections[i].name, 5), 0) :
     i \in {j \in 1..Len(c.sections) :
              /\ startswith(c.sections[j].name, S_reg_slash)
              /\ IsDecimal(Drop(c.sections[j].name, 5))}}
ThreadLwps == {ptid_get_lwp(thread_list[i]) : i \in 1..Len(thread_list)}

\* C4, as stated: after a successful open the LWPs of the threads are exactly
\* the decimal <lwp> of the sections named `.reg/<lwp>' (a non-numeric tail
\* creates no thread), or the single LWP 0 if there is no such section.
C4_Claim ==
  Opened =>
    IF DecimalLwps(Arg) # {}
    THEN ThreadLwps = DecimalLwps(Arg)
    ELSE Len(thread_list) = 1 /\ ThreadLwps = {0}

\* The sections whose names start with `.reg/', and those among them at the
\* file offset of the section named `.reg'.
RegSlashSections(c) ==
  {i \in 1..Len(c.sections) : startswith(c.sections[i].name, S_reg_slash)}
RegAliases(c) ==
  {i \in RegSlashSections(c) :
     \E r \in 1..Len(c.sections) :
       /\ c.sections[r].name = S_reg
       /\ \A q \in 1..(r - 1) : c.sections[q].name # S_reg
       /\ c.sections[i].filepos = c.sections[r].filepos}
ThreadOfSection(c, i) ==
  << IF c.pid = 0 THEN CORELOW_PID ELSE c.pid, atoi(Drop(c.sections[i].name, 5)), 0 >>

\* C5: after a successful open the current thread is not null; it is the
\* thread of a `.reg/<lwp>' section at the file offset of `.reg' if there is
\* one, else the first thread if there are threads, else the single
\* synthetic thread (CORELOW_PID, 0, 0).
C5_CurrentThread ==
  Opened =>
    /\ inferior_ptid # null_ptid
    /\ \E i \in 1..Len(thread_list) : thread_list[i] = inferior_ptid
    /\ IF RegAliases(Arg) # {}
       THEN \E i \in RegAliases(Arg) : inferior_ptid = ThreadOfSection(Arg, i)
       ELSE IF RegSlashSections(Arg) # {}
       THEN inferior_ptid = Head(thread_list)
       ELSE /\ inferior_ptid = << CORELOW_PID, 0, 0 >>
            /\ thread_list = << inferior_ptid >>

\* The open of a core whose `.reg' aliases its second `.reg/<lwp>' section.
C5_Witness ==
  /\ Opened
  /\ RegAliases(Arg) # {}
  /\ inferior_ptid # Head(thread_list)

\* C6, as stated: after a successful open exactly one inferior exists and
\* its fake-pid flag is set iff the container reports no pid.
C6_Claim ==
  Opened =>
    /\ inferior.pid # 0
    /\ inferior.fake_pid_p = (Arg.pid = 0)

\* C7, as stated: a container with a pid P, a `.reg' section and no
\* `.reg/<lwp>' section opens as the inferior P with the single, current
\* thread (P, 0, 0).
C7_Claim ==
  (/\ Opened
   /\ Arg.pid # 0
   /\ RegSlashSections(Arg) = {}
   /\ \E i \in 1..Len(Arg.sections) : Arg.sections[i].name = S_reg) =>
    /\ inferior.pid = Arg.pid
    /\ thread_list = << << Arg.pid, 0, 0 >> >>
    /\ inferior_ptid = << Arg.pid, 0, 0 >>

\* C8: once a session is closed (by detach, by the open of another core, by
\* the cleanup of a failed open) the backend holds no container reference,
\* every section table and instance of a closed session is freed, and when
\* no session is left the current thread is null and no inferior or thread
\* remains.
C8_CloseLeavesNothing ==
  /\ sectabs = Cardinality(target_stack)
  /\ LiveCops = target_stack
  /\ HeldContainers \subseteq (IF target_stack = {} THEN {} ELSE {core_bfd})
  /\ (target_stack = {}) =>
        /\ core_bfd = NULL
        /\ inferior_ptid = null_ptid
        /\ inferior = [pid |-> 0, fake_pid_p |-> FALSE]
        /\ thread_list = << >>

\* A detach that closed a session.
C8_Witness ==
  /\ last.op = "detach"
  /\ last.err = "ok"
  /\ last.pre_bfd # NULL
  /\ FirstCall("core_xclose") # 0

\* C9: open, close, open of the same container: the second open leaves the
\* same inferior, the same thread set and the same current thread as the
\* first, and holds no more than the first did (nothing of the first
\* session survives).
C9_RoundTrip == (cycle.phase = 3) => (cycle.second = cycle.first)

\* The round trip on the pid-less core with two threads.
C9_Witness ==
  /\ cycle.phase = 3
  /\ Cardinality(cycle.second.threads) = 2
  /\ cycle.second.inferior.fake_pid_p

\* C10: a read of kind Aux, StackCookie or Spu never returns ok with zero
\* bytes: an ok result reports between 1 and len bytes, and a request that
\* can transfer nothing is answered eof or io-error.
C10_NoEmptyOk ==
  (xfer.readbuf /\ xfer.object \in {"AUXV", "WCOOKIE", "SPU"}) =>
    /\ xfer.status \in {"OK", "EOF", "E_IO"}
    /\ (xfer.status = "OK") => (1 <= xfer.xfered /\ xfer.xfered <= xfer.len)
    /\ (xfer.status # "OK") => (xfer.xfered = 0)
    /\ (xfer.len = 0) => (xfer.status \in {"EOF", "E_IO"})

\* A read of length 0 inside a section that has bytes left.
C10_Witness ==
  /\ xfer.readbuf
  /\ xfer.object = "AUXV"
  /\ xfer.len = 0
  /\ xfer.offset = 1
  /\ xfer.status = "EOF"
  /\ bfd_get_section_by_name(core_bfd, S_auxv) # NULL
  /\ bfd_sections(core_bfd)[bfd_get_section_by_name(core_bfd, S_auxv)].size > 1

\* The <id> of the sections named `SPU/<id>/regs' of a container.
SpuRegsIds(c) ==
  {DigitRun(Drop(c.sections[i].name, 4), 0) :
     i \in {j \in 1..Len(c.sections) :
              LET name == c.sections[j].name
                  tail == Drop(name, 4)
                  n == DigitCount(tail)
              IN  /\ startswith(name, S_SPU_slash)
                  /\ n > 0
                  /\ Drop(tail, n) = S_slash_regs}}

\* The elements of a set of integers in ascending order.
RECURSIVE Ascending(_)
Ascending(S) == IF S = {} THEN << >> ELSE << Min(S) >> \o Ascending(S \ {Min(S)})

\* The 4-byte integers of a sequence, concatenated, in the byte order of c.
RECURSIVE Encode4(_, _)
Encode4(c, ids) ==
  IF ids = << >> THEN << >>
  ELSE (LET v == Head(ids)
            be == << 0, 0, 0, v >>
            le == << v, 0, 0, 0 >>
        IN  IF c.big_endian THEN be ELSE le) \o Encode4(c, Tail(ids))

SpuListRead ==
  /\ xfer.object = "SPU"
  /\ xfer.readbuf
  /\ xfer.annex = NULL
  /\ xfer.offset = 0
  /\ SpuRegsIds(Containers[core_bfd]) # {}
  /\ xfer.len >= 4 * Cardinality(SpuRegsIds(Containers[core_bfd]))

\* C11, as stated: a read of kind Spu with a null annex, offset 0 and a
\* buffer large enough returns the 4-byte integers, in the container's byte
\* order, of the ascending enumeration of the <id> of the sections named
\* `SPU/<id>/regs', whatever the order of the sections in the container;
\* `SPU/<id>/mem' sections contribute nothing.
C11_Claim ==
  SpuListRead =>
    LET ids == Ascending(SpuRegsIds(Containers[core_bfd]))
    IN  /\ xfer.status = "OK"
        /\ xfer.xfered = 4 * Len(ids)
        /\ SubSeq(xfer.buf, 1, 4 * Len(ids)) = Encode4(Containers[core_bfd], ids)

\* The architecture of the session, and what it provides.
SessionArch == cops_heap[get_core_target_ops(St)].core_gdbarch
HasLibraries == SessionArch # NULL /\ Gdbarch[SessionArch].core_xfer_shared_libraries_p
HasLibrariesAix ==
  SessionArch # NULL /\ Gdbarch[SessionArch].core_xfer_shared_libraries_aix_p

\* What the router answers to the request of xfer made for another object.
AnswerAs(object) ==
  core_xfer_partial(St, object, xfer.annex, xfer.readbuf, xfer.offset,
                    xfer.len, xfer.read_ok)
Answer == [status |-> xfer.status, xfered |-> xfer.xfered, buf |-> xfer.buf]

\* C12, as stated: a Libraries request on an architecture without
\* shared-library extractor is handled as a LibrariesAix request, and a
\* LibrariesAix request (direct or by that fall-through) on an architecture
\* without AIX extractor is delegated to the underlying target: the backend
\* never answers it from a section of the core.
C12_Claim ==
  /\ (xfer.object = "LIBRARIES" /\ ~HasLibraries) =>
        Answer = AnswerAs("LIBRARIES_AIX")
  /\ (\/ xfer.object = "LIBRARIES" /\ ~HasLibraries /\ ~HasLibrariesAix
      \/ xfer.object = "LIBRARIES_AIX" /\ ~HasLibrariesAix) =>
        xfer.status = "DELEGATED"

\* The object kinds the router handles itself.
RouterKinds == {"MEMORY", "AUXV", "WCOOKIE", "LIBRARIES", "LIBRARIES_AIX", "SPU",
                "SIGNAL_INFO"}

WriteRequest == xfer # NoXfer /\ ~xfer.readbuf

\* C13: a write request is rejected for every object kind the router handles
\* itself (Memory, Aux, StackCookie, Libraries, LibrariesAix, Spu,
\* SignalInfo): it returns io-error, transfers no byte and changes neither
\* the container nor the session; only the other kinds are delegated to the
\* underlying target.
C13_WritesRejected ==
  /\ [](WriteRequest =>
          IF xfer.object \in RouterKinds
          THEN xfer.status = "E_IO" /\ xfer.xfered = 0 /\ xfer.buf = << >>
          ELSE xfer.status = "DELEGATED")
  /\ [][WriteRequest' =>
          UNCHANGED << core_bfd, bfd_refs, target_stack, cops_heap, sectabs,
                       inferior, thread_list, inferior_ptid, exitsignal,
                       regcache >>]_vars

\* A write request to the signal information of the current thread, which
\* a read request of the same offset and length gets.
C13_Witness ==
  /\ WriteRequest
  /\ xfer.object = "SIGNAL_INFO"
  /\ xfer.read_ok
  /\ xfer.len > 0
  /\ get_core_siginfo(St, xfer.offset, xfer.len, TRUE) > 0

\* How often the last operation made the call of that name.
Calls(what) == Cardinality({i \in 1..Len(log) : log[i] = what})

\* The last operation was an open that went as far as the register fetch.
OpenFetched == last.op = "open" /\ FirstCall("get_core_registers") # 0
ArgHasIterator == Arg.arch # NULL /\ Gdbarch[Arg.arch].iterate_over_regset_sections_p

\* The name of the section of the current thread for a register section.
ThreadSection(name) ==
  IF ptid_get_lwp(inferior_ptid) # 0
  THEN name_slash_lwp(name, ptid_get_lwp(inferior_ptid))
  ELSE name

\* The sections the iterator of the container's architecture reports that
\* the container has for the current thread, with the expected size or more.
Decodable ==
  {i \in 1..Len(Gdbarch[Arg.arch].regset_sections) :
     \E j \in 1..Len(Arg.sections) :
       /\ Arg.sections[j].name = ThreadSection(Gdbarch[Arg.arch].regset_sections[i].sect_name)
       /\ Arg.sections[j].size >= Gdbarch[Arg.arch].regset_sections[i].size}
GroupOf(sect_name) == IF sect_name = S_reg THEN "gp" ELSE "fp"

\* C14, as stated: when the architecture provides a register-section
\* iterator no legacy handler is consulted: the sniff of the open returns no
\* handler and calls no handler's sniffer, and the register fetch decodes
\* every section the iterator reports through the iterator's callback and
\* never calls a legacy core_read_registers, whatever register set
\* (including none) the iterator reports for a section.
C14_Claim ==
  (OpenFetched /\ ArgHasIterator) =>
    /\ Calls("core_sniffer") = 0
    /\ cops_heap[get_core_target_ops(St)].core_vec = NULL
    /\ Calls("core_read_registers") = 0
    /\ last.err = "ok"
    /\ Calls("supply_regset") = Cardinality(Decodable)
    /\ \A i \in Decodable :
          regcache[GroupOf(Gdbarch[Arg.arch].regset_sections[i].sect_name)] = "REG_VALID"

\* The sections of the container that have that name.
SectionsNamed(c, name) == {j \in 1..Len(c.sections) : c.sections[j].name = name}
\* What the iterator of the container's architecture reports under that
\* name.
ReportedAs(c, sect_name) ==
  {i \in 1..Len(Gdbarch[c.arch].regset_sections) :
     Gdbarch[c.arch].regset_sections[i].sect_name = sect_name}

\* The floating-point section of the current thread is smaller than the
\* size the iterator expects.
Reg2TooSmall ==
  /\ OpenFetched
  /\ ArgHasIterator
  /\ \E i \in ReportedAs(Arg, S_reg2), j \in SectionsNamed(Arg, ThreadSection(S_reg2)) :
       Arg.sections[j].size < Gdbarch[Arg.arch].regset_sections[i].size

\* The general-purpose section of the current thread is there, of the
\* expected size or more, and reported with a register set.
RegDecodable ==
  \E i \in ReportedAs(Arg, S_reg), j \in SectionsNamed(Arg, ThreadSection(S_reg)) :
    /\ Arg.sections[j].size >= Gdbarch[Arg.arch].regset_sections[i].size
    /\ Gdbarch[Arg.arch].regset_sections[i].regset # NULL

\* C15: a `.reg2' section (`.reg2/<lwp>' for a thread with an LWP) smaller
\* than the expected minimum produces a warning and supplies nothing, so
\* that the floating-point registers end up unavailable, and it does not
\* abort the fetch: the general-purpose registers of `.reg' are still
\* supplied and the final mark-unavailable pass still runs.
C15_SmallReg2 ==
  Reg2TooSmall =>
    /\ \E w \in 1..Len(warnings) :
          warnings[w] = << "Section too small", ThreadSection(S_reg2) >>
    /\ regcache["fp"] = "REG_UNAVAILABLE"
    /\ RegDecodable => (last.err = "ok" /\ regcache["gp"] = "REG_VALID")
    /\ (last.err = "ok") => (Calls("mark_unavailable") = 1)

\* The open of a core whose current thread has an LWP and a `.reg2/<lwp>'
\* section of half the expected size.
C15_Witness ==
  /\ Reg2TooSmall
  /\ ptid_get_lwp(inferior_ptid) # 0
  /\ last.err = "ok"
  /\ regcache = [gp |-> "REG_VALID", fp |-> "REG_UNAVAILABLE"]

\* The session of the open is attached: the backend is on the target stack,
\* the container is held, and its threads are there with a current one.
SessionOpen ==
  /\ target_stack # {}
  /\ LiveCops = target_stack
  /\ core_bfd = last.arg
  /\ bfd_refs[last.arg] = 1
  /\ thread_list # << >>
  /\ \E i \in 1..Len(thread_list) : thread_list[i] = inferior_ptid

\* The steps of an open that follow the post-create hooks.
StepsAfterHooks == {"target_update_thread_list", "clear_exit_convenience_vars",
                    "set_exitsignal", "target_fetch_registers",
                    "get_core_registers"}

HooksFailed == last.op = "open" /\ last.err = "PostCreateFailed"

\* C16, as stated: a failure of the post-create hooks is not fatal to the
\* open: the session remains open and the open goes on to the following
\* steps (thread re-enumeration, failing-signal reporting, register fetch
\* for the current thread).
C16_Original ==
  HooksFailed =>
    /\ SessionOpen
    /\ FirstCall("target_update_thread_list") # 0
    /\ FirstCall("clear_exit_convenience_vars") # 0
    /\ FirstCall("target_fetch_registers") # 0

\* C16, amended: a failure of the post-create hooks ends the open with that
\* error, and the session remains open (backend on the target stack,
\* container held, threads present with a current thread); the open does
\* not go on to the following steps: no thread re-enumeration, no
\* failing-signal reporting, no register fetch.
C16_HooksFailureKeepsSession ==
  HooksFailed =>
    /\ SessionOpen
    /\ FirstCall("post_create_inferior") = Len(log)
    /\ \A i \in 1..Len(log) : log[i] \notin StepsAfterHooks
    /\ regcache = NoRegisters

\* The hooks fail in the open of a core that has a failing signal and two
\* threads, made while another session was attached.
C16_Witness ==
  /\ HooksFailed
  /\ last.pre_stack # {}
  /\ last.pre_bfd # last.arg
  /\ Arg.siggy > 0
  /\ Len(thread_list) = 2

\* Both calls were made by the last operation, the first before the second.
Before(first, second) ==
  /\ FirstCall(first) # 0
  /\ FirstCall(first) < FirstCall(second)

\* The events of an open: (a) container installation, (b) section-table
\* construction, (c) thread-list population (from the reset of the list to
\* the last section visited), (d) push of the backend, (e) post-create
\* hooks.
OpenEvents == {"install_container", "build_section_table", "init_thread_list",
               "add_to_thread_list", "push_target", "post_create_inferior"}

\* C17, as stated: in every open the events occur in the strict order (a)
\* container installation, (b) section-table construction, (c) thread-list
\* population, (d) push of the backend, (e) post-create hooks.
C17_Original ==
  (last.op = "open" /\ FirstCall("post_create_inferior") # 0) =>
    /\ Before("install_container", "build_section_table")
    /\ Before("build_section_table", "init_thread_list")
    /\ Before("init_thread_list", "add_to_thread_list")
    /\ Before("add_to_thread_list", "push_target")
    /\ Before("push_target", "post_create_inferior")

\* C17, amended: in every open the events occur in the strict order (a)
\* container installation, (b) section-table construction, (d) push of the
\* backend, (c) thread-list population, (e) post-create hooks: an event
\* happens once, only after the ones before it, and the backend is pushed
\* before the thread list is populated.
C17_OpenOrder ==
  (last.op = "open") =>
    /\ \A e \in OpenEvents : Calls(e) <= 1
    /\ (FirstCall("build_section_table") # 0) =>
          Before("install_container", "build_section_table")
    /\ (FirstCall("push_target") # 0) =>
          Before("build_section_table", "push_target")
    /\ (FirstCall("init_thread_list") # 0) =>
          Before("push_target", "init_thread_list")
    /\ (FirstCall("add_to_thread_list") # 0) =>
          Before("init_thread_list", "add_to_thread_list")
    /\ (FirstCall("post_create_inferior") # 0) =>
          Before("add_to_thread_list", "post_create_inferior")

\* An open that ran the hooks after all the other events.
C17_Witness ==
  /\ Opened
  /\ last.pre_stack # {}
  /\ \A e \in OpenEvents : Calls(e) = 1
  /\ Len(thread_list) = 2

\* The threads of the sections of a container: one for each `.reg/<lwp>'
\* section, or the single synthetic thread if there is none.
ThreadsOf(c) ==
  IF RegSlashSections(c) = {} THEN {<< CORELOW_PID, 0, 0 >>}
  ELSE {ThreadOfSection(c, i) : i \in RegSlashSections(c)}

\* The thread enumeration of the attached session is complete.
ThreadsComplete ==
  /\ core_bfd # NULL
  /\ {thread_list[i] : i \in 1..Len(thread_list)} = ThreadsOf(Containers[core_bfd])
  /\ inferior_ptid # null_ptid
  /\ inferior_ptid \in ThreadsOf(Containers[core_bfd])

\* C18: when an open runs the post-create hooks the backend has been pushed
\* and the thread list has been populated, with a current thread, before
\* the hooks start (a failing hook leaves what it saw), and no state shows a
\* pushed session whose thread enumeration is incomplete.
C18_HooksSeeSession ==
  /\ (last.op = "open" /\ FirstCall("post_create_inferior") # 0) =>
        /\ Before("push_target", "post_create_inferior")
        /\ Before("add_to_thread_list", "post_create_inferior")
  /\ HooksFailed => (target_stack # {} /\ ThreadsComplete)
  /\ (target_stack # {}) => ThreadsComplete

\* The hooks fail in the open of a core whose `.reg' is at the file offset
\* of none of its `.reg/<lwp>' sections: the first thread is current.
C18_Witness ==
  /\ HooksFailed
  /\ RegSlashSections(Arg) # {}
  /\ RegAliases(Arg) = {}
  /\ inferior_ptid = Head(thread_list)

\* C19: a detach with an argument fails with a usage error and changes no
\* state (the backend stays on the target stack, the container stays open,
\* the threads and the current thread are unchanged); a detach without
\* argument pops the backend from the target stack, and no core session is
\* attached afterwards.
C19_Detach ==
  (last.op = "detach") =>
    IF last.arg # NULL
    THEN /\ last.err = "UsageError"
         /\ log = << >>
         /\ target_stack = last.pre_stack
         /\ target_stack # {}
         /\ core_bfd = last.pre_bfd
         /\ bfd_refs[core_bfd] = 1
         /\ inferior = last.pre_inferior
         /\ thread_list = last.pre_threads
         /\ inferior_ptid = last.pre_ptid
    ELSE /\ last.err = "ok"
         /\ Before("unpush_target", "core_xclose")
         /\ target_stack = {}
         /\ LiveCops = {}
         /\ core_bfd = NULL
         /\ HeldContainers = {}

\* A detach with an argument in a session of two threads.
C19_Witness ==
  /\ last.op = "detach"
  /\ last.arg # NULL
  /\ last.err = "UsageError"
  /\ Len(thread_list) = 2
  /\ inferior_ptid # null_ptid

\* The closes of the last operation: where each starts in the log, where it
\* ends, and where it made a call (0: it did not).
CloseStarts == {i \in 1..Len(log) : log[i] = "core_xclose"}
CloseEnd(i) == Min({j \in i..Len(log) : log[j] = "xfree_cops"})
CloseCall(i, what) ==
  LET at == {k \in i..CloseEnd(i) : log[k] = what}
  IN  IF at = {} THEN 0 ELSE Min(at)
CloseCalls(i, what) == Cardinality({k \in i..CloseEnd(i) : log[k] = what})

\* C20: within a close the current thread is cleared, then the inferior is
\* exited silently (only if its pid is not zero), then the shared-object
\* state is cleared, only then the container reference is dropped, and
\* after that the section table is freed; the shared-object state is never
\* cleared after the container was dropped.
C20_CloseOrder ==
  \A i \in CloseStarts :
    LET clear == CloseCall(i, "clear_inferior_ptid")
        exit == CloseCall(i, "exit_inferior_silent")
        solib == CloseCall(i, "clear_solib")
        unref == CloseCall(i, "gdb_bfd_unref")
        free == CloseCall(i, "xfree_sections")
        first == (i = Min(CloseStarts))
    IN  /\ \E j \in i..Len(log) : log[j] = "xfree_cops"
        /\ \A what \in {"clear_inferior_ptid", "exit_inferior_silent", "clear_solib",
                         "gdb_bfd_unref", "xfree_sections"} : CloseCalls(i, what) <= 1
        /\ (clear # 0) <=> (solib # 0)
        /\ (solib # 0) <=> (unref # 0)
        /\ (unref # 0) => (clear < solib /\ solib < unref)
        /\ (exit # 0) => (clear < exit /\ exit < solib)
        /\ (exit # 0) <=> (first /\ unref # 0 /\ ptid_get_pid(last.pre_ptid) # 0)
        /\ (free # 0) => (unref < free /\ free < CloseEnd(i))
        /\ \A k \in i..CloseEnd(i) : (log[k] = "clear_solib") => (unref = 0 \/ k < unref)

\* A failed open that closed two sessions: the one attached before, with
\* its inferior, and the one it had begun, without inferior.
C20_Witness ==
  /\ last.op = "open"
  /\ last.err = "ValidateFailed"
  /\ Cardinality(CloseStarts) = 2
  /\ Calls("exit_inferior_silent") = 1
  /\ Calls("clear_solib") = 2
  /\ Calls("xfree_sections") = 1

\* C21: close is idempotent: a second close of a closed session returns,
\* releases nothing a second time (no container unref, no free of the
\* section table, no free of the session record), exits no inferior, and
\* leaves the state the first close left.
C21_Claim ==
  (last.op = "close") =>
     /\ last.err = "ok"
     /\ Calls("gdb_bfd_unref") = 0
     /\ Calls("exit_inferior_silent") = 0
     /\ Calls("xfree_sections") = 0
     /\ Calls("xfree_cops") = 0
     /\ core_bfd = last.pre_bfd
     /\ target_stack = last.pre_stack
     /\ inferior = last.pre_inferior
     /\ thread_list = last.pre_threads
     /\ inferior_ptid = last.pre_ptid

\* The last operation was an open whose register fetch took the legacy
\* path: the architecture has no iterator and the handler the sniff chose
\* decodes registers.
LegacyFetch ==
  /\ OpenFetched
  /\ ~ArgHasIterator
  /\ get_core_target_ops(St) # NULL
  /\ cops_heap[get_core_target_ops(St)].core_vec # NULL
  /\ Handlers[cops_heap[get_core_target_ops(St)].core_vec].core_read_registers

\* The register sections, of `.reg' and `.reg2', the container has for the
\* current thread with a size that is not zero.
LegacySections ==
  {name \in {S_reg, S_reg2} :
     \E j \in SectionsNamed(Arg, ThreadSection(name)) : Arg.sections[j].size > 0}

\* C22: on the legacy path the fetch reads `.reg' and then `.reg2' and, for
\* each that is present, of a non-zero size and readable, calls the
\* decoder of the legacy handler (discriminator 0 for `.reg', 2 for
\* `.reg2'), with no register set involved.
C22_Claim ==
  LegacyFetch =>
    /\ last.err = "ok"
    /\ Calls("supply_regset") = 0
    /\ Calls("core_read_registers") = Cardinality(LegacySections)
    /\ \A name \in LegacySections : regcache[GroupOf(name)] = "REG_VALID"

\* The last operation was a register fetch that returned.
FetchReturned == last.op = "fetch" /\ last.err = "ok"

\* The session can fetch registers: its architecture has a register-section
\* iterator, or its legacy handler decodes registers.
CanFetch ==
  \/ SessionArch # NULL /\ Gdbarch[SessionArch].iterate_over_regset_sections_p
  \/ /\ cops_heap[get_core_target_ops(St)].core_vec # NULL
     /\ Handlers[cops_heap[get_core_target_ops(St)].core_vec].core_read_registers

CantFetchWarning == << "Can't fetch registers from this type of core file" >>

\* C23, as stated: whenever the fetch returns no register is left unknown
\* in the cache, whichever path was taken, the `cannot fetch registers'
\* path included.
C23_Original ==
  FetchReturned => \A g \in RegisterGroups : regcache[g] # "REG_UNKNOWN"

\* C23: a fetch that returns on the iterator path or on the legacy path
\* leaves no register unknown: each is supplied from a section or marked
\* unavailable by the last loop, whatever sections were missing, too
\* small or unreadable.  A fetch on the `cannot fetch registers' path
\* reports that and returns before the last loop: the cache is left as it
\* was, the registers unknown.
C23_NoUnknownWhenFetched ==
  FetchReturned =>
    IF CanFetch
    THEN /\ \A g \in RegisterGroups : regcache[g] \in {"REG_VALID", "REG_UNAVAILABLE"}
         /\ Calls("mark_unavailable") = 1
    ELSE /\ regcache = NoRegisters
         /\ warnings = << CantFetchWarning >>
         /\ Calls("mark_unavailable") = 0

\* A fetch that could not read the sections of the registers and marked
\* every register unavailable.
C23_Witness ==
  /\ FetchReturned
  /\ CanFetch
  /\ xfer = NoXfer
  /\ warnings # << >>
  /\ regcache = [g \in RegisterGroups |-> "REG_UNAVAILABLE"]

\* The failing signal of the container, translated as the open translates
\* it for its message: by the architecture, or by the table of the host.
Translated(c) ==
  IF c.arch # NULL /\ Gdbarch[c.arch].gdb_signal_from_target_p
  THEN gdbarch_gdb_signal_from_target(c.arch, c.siggy)
  ELSE gdb_signal_from_host(c.siggy)

\* C24, as stated: after a successful open `_exitsignal' is set iff the
\* failing signal of the container is positive, and then holds the failing
\* signal translated by the architecture or by the table of the host;
\* else it is void.
C24_Original ==
  Opened => (exitsignal = IF Arg.siggy > 0 THEN Translated(Arg) ELSE 0)

\* C24: after a successful open `_exitsignal' is set iff the failing
\* signal of the container is positive, and then holds that signal as the
\* container gives it, untranslated; else it is void, with no value of a
\* previous session.
C24_ExitSignal ==
  Opened =>
    /\ Calls("clear_exit_convenience_vars") = 1
    /\ Calls("set_exitsignal") = (IF Arg.siggy > 0 THEN 1 ELSE 0)
    /\ exitsignal = (IF Arg.siggy > 0 THEN Arg.siggy ELSE 0)

\* A successful open of a core whose failing signal the translation
\* changes.
C24_Witness ==
  /\ Opened
  /\ Arg.siggy > 0
  /\ Translated(Arg) # Arg.siggy
  /\ exitsignal = Arg.siggy

\* The last operation was an open that went as far as the sniff.
SniffReached ==
  /\ last.op = "open"
  /\ last.arg # NULL
  /\ last.err \notin {"UsageError", "OpenFailed", "NotACore"}

\* The registered handlers whose sniffer accepts the container of the open,
\* in the order of the list: the newest registered first.
Matching ==
  SelectSeq(core_file_fns, LAMBDA cf : Handlers[cf].core_flavour = Arg.flavour)

AmbiguousWarnings ==
  {w \in 1..Len(warnings) : warnings[w][1] = "ambiguous core format"}

\* C25: without a register-section iterator the sniff calls the sniffer of
\* every registered handler.  No match: the open fails with
\* UnrecognizedFormat.  One match: that handler, without warning.  More
\* than one: one warning with the number of matches, the handler is the
\* last match of the list (the earliest registered, the list being newest
\* first), and the sniff does not fail the open.
C25_Sniff ==
  (SniffReached /\ ~ArgHasIterator) =>
    /\ Calls("sniff_core_bfd") = 1
    /\ Calls("core_sniffer") = Len(core_file_fns)
    /\ (Len(Matching) = 0) <=> (last.err = "UnrecognizedFormat")
    /\ (Len(Matching) <= 1) => (AmbiguousWarnings = {})
    /\ (Len(Matching) > 1) =>
          /\ AmbiguousWarnings = {1}
          /\ warnings[1] = << "ambiguous core format", Len(Matching) >>
    /\ (Len(Matching) >= 1 /\ get_core_target_ops(St) # NULL) =>
          cops_heap[get_core_target_ops(St)].core_vec = Matching[Len(Matching)]

\* An open that succeeded although two handlers matched; the handler is
\* the one registered first.
C25_Witness ==
  /\ SniffReached
  /\ ~ArgHasIterator
  /\ last.err = "ok"
  /\ Len(Matching) = 2
  /\ Matching[1] # Matching[2]
  /\ warnings[1] = << "ambiguous core format", 2 >>
  /\ cops_heap[get_core_target_ops(St)].core_vec = Matching[2]

\* A read of the auxiliary vector or of the StackGhost cookie is in
\* progress; the section it reads, and the sections of that name the
\* container of the session has.
SectionRead == xfer # NoXfer /\ xfer.readbuf /\ xfer.object \in {"AUXV", "WCOOKIE"}
ReadName == IF xfer.object = "AUXV" THEN S_auxv ELSE S_wcookie
ReadHits == SectionsNamed(Containers[core_bfd], ReadName)
ReadSection == Containers[core_bfd].sections[Min(ReadHits)]
\* All the bytes of a section, in order.
AllBytes(sec) == [i \in 1..sec.size |-> section_byte(sec, i - 1)]
ClippedCount == IF xfer.len < ReadSection.size - xfer.offset
                THEN xfer.len ELSE ReadSection.size - xfer.offset
AnsweredClipped ==
  /\ xfer.status = "OK"
  /\ xfer.xfered = ClippedCount
  /\ xfer.buf = SubSeq(AllBytes(ReadSection), xfer.offset + 1,
                       xfer.offset + ClippedCount)

\* C26, as stated: an absent section gives io-error, an offset at or after
\* the size gives eof, and every other request is answered ok with
\* min(length, S - offset) bytes, the bytes of the section from offset on.
C26_Original ==
  SectionRead =>
    IF ReadHits = {} THEN xfer.status = "E_IO"
    ELSE IF xfer.offset >= ReadSection.size THEN xfer.status = "EOF"
    ELSE AnsweredClipped

\* The answer to every request of a read of `.auxv' or `.wcookie'.
C26_Request ==
  SectionRead =>
    IF ReadHits = {} THEN xfer.status = "E_IO"
    ELSE IF xfer.offset >= ReadSection.size THEN xfer.status = "EOF"
    ELSE IF xfer.len = 0 THEN xfer.status = "EOF"
    ELSE IF ~xfer.read_ok THEN xfer.status = "E_IO"
    ELSE AnsweredClipped

\* The caller that started at offset 0 with a positive length and was
\* answered eof has received the bytes of the section, all and in order.
C26_WholeAtEof ==
  (SectionRead /\ xfer.from = 0 /\ xfer.len > 0 /\ xfer.status = "EOF") =>
    (xfer.got = AllBytes(ReadSection))

ReadStarted == SectionRead /\ xfer.from = 0 /\ xfer.len > 0
ReadEnded == xfer.status \in {"EOF", "E_IO"}

\* C26: for a read of `.auxv' or `.wcookie' with section size S: an absent
\* section gives io-error; offset >= S gives eof; a length of 0 gives eof;
\* a section that cannot be read gives io-error; otherwise the answer is
\* ok with min(length, S - offset) bytes, the bytes of the section at
\* [offset, offset + count).  A caller that starts at offset 0 with a
\* positive length and advances by the count after each ok is eventually
\* answered eof or io-error, and at eof it has received the S bytes of the
\* section in order.
C26_SectionReads ==
  /\ [](C26_Request /\ C26_WholeAtEof)
  /\ (ReadStarted ~> ReadEnded)

\* A caller that read a section of three bytes in two requests and was
\* then answered eof.
C26_Witness ==
  /\ SectionRead
  /\ xfer.from = 0
  /\ xfer.len = 2
  /\ xfer.status = "EOF"
  /\ xfer.offset = 3
  /\ Len(xfer.got) = 3
  /\ xfer.got = AllBytes(ReadSection)

\* A read of the list of SPU contexts is in progress.
SpuNullRead == xfer # NoXfer /\ xfer.object = "SPU" /\ xfer.readbuf /\ xfer.annex = NULL

\* The ids of the sections named `SPU/<id>/regs' of a container, in the
\* order the container enumerates its sections, and the stream of their
\* 4-byte integers in the byte order of the container.
SpuIdsEnumerated(c) ==
  LET hits == SelectSeq(c.sections, LAMBDA sec : sscanf_spu_regs(sec.name).pos # 0)
  IN  [i \in 1..Len(hits) |-> sscanf_spu_regs(hits[i].name).fd]
RECURSIVE IdStream(_, _)
IdStream(c, ids) ==
  IF ids = << >> THEN << >>
  ELSE store_unsigned_integer(c.big_endian, Head(ids)) \o IdStream(c, Tail(ids))
SpuStream == IdStream(Containers[core_bfd], SpuIdsEnumerated(Containers[core_bfd]))

\* The bytes of the stream at positions [from, from + count), as far as the
\* stream goes.
StreamAt(from, count) ==
  SubSeq(SpuStream, from + 1,
         IF from + count < Len(SpuStream) THEN from + count ELSE Len(SpuStream))

\* C27, as stated: for a read of kind Spu with a null annex, whatever the
\* offset and the length, the first `transferred' bytes of the buffer are
\* the bytes of the id stream at [offset, offset + transferred), and the
\* caller that advances by the transferred count until eof has received
\* the whole id list, once.
C27_Claim ==
  /\ (SpuNullRead /\ xfer.status = "OK") =>
       SubSeq(xfer.buf, 1, xfer.xfered) = StreamAt(xfer.offset, xfer.xfered)
  /\ (SpuNullRead /\ xfer.from = 0 /\ xfer.status = "EOF") =>
       xfer.got = SpuStream

====
